---- MODULE Spec2Model ----
(***************************************************************************)
(* Verification model of the routes-app delivery route optimizer:          *)
(*   - the persistence operations of RouteService (create_route,           *)
(*     delete_route, reset_all_routes) over the orders / routes /          *)
(*     route_points tables, with the SQLAlchemy session they run in;        *)
(*   - the POST /routes/optimize and /routes/optimize/genetic handlers,     *)
(*     whose loop over the engine's routes is the "session arbiter";        *)
(*   - the route-building engines of RouteOptimizer and GeneticOptimizer.   *)
(* Ids are strings; distances, weights and loads are integers.              *)
(***************************************************************************)
EXTENDS Integers, Sequences, FiniteSets, TLC

(***************************************************************************)
(* Bounds of the model.                                                    *)
(***************************************************************************)
\* longest route list an engine hands to the arbiter in one session
MaxRoutes == 2
\* longest point list of one engine route or of one POST /routes body
MaxPoints == 3
\* most rows the routes table holds
MaxStoredRoutes == 3
\* generations of the genetic algorithm that are followed
MaxGenerations == 2

(***************************************************************************)
(* The entities of the database.                                           *)
(***************************************************************************)
Depots == {"d1", "d2"}
Couriers == {"c1", "c2", "c3"}
Orders == {"o1", "o2"}

\* a string that UUID() rejects, a UUID that names no order row, no courier
Malformed == "bad"
UnknownOrder == "ox"
NoCourier == "none"
NoDepot == "none"

\* Courier.depot_id
courier_depot(c) == IF c = "c3" THEN "d2" ELSE "d1"

\* Courier.max_capacity (items)
max_capacity(c) == IF c = "c1" THEN 2 ELSE 3

\* Order.items_count
items_count(o) == IF o = "o1" THEN 1 ELSE 2

\* OrderStatus
PENDING == "pending"
ASSIGNED == "assigned"

VARIABLES
    depots,         \* ids of the rows of the depots table
    courier_depot_id, \* couriers table: courier id -> Courier.depot_id
    orders,         \* orders table: order id -> [status, courier_id]
    routes,         \* routes table: set of [id, courier_id, depot_id]
    route_points,   \* route_points table: set of [route_id, order_id, sequence]
    session,        \* the request being served and its AsyncSession
    problem,        \* what an engine is called with: depots, orders, couriers
    engine,         \* what the engine returned
    ga,             \* the GeneticOptimizer's individuals
    osrm,           \* one distance matrix computation and its remote requests
    buckets,        \* what a depot partitioner returned: depot id -> order ids
    nn              \* the nearest-neighbour engine between two orders of its loop

dbVars == <<depots, courier_depot_id, orders, routes, route_points>>
engVars == <<problem, engine, ga>>
auxVars == <<osrm, buckets, nn>>
vars == <<depots, courier_depot_id, orders, routes, route_points, session, problem, engine, ga, osrm, buckets, nn>>

\* couriers table: a courier row needs its depot row (ForeignKey)
StoredCouriers == {c \in Couriers : courier_depot(c) \in depots}

(***************************************************************************)
(* Small helpers.                                                          *)
(***************************************************************************)
SeqRange(s) == {s[i] : i \in 1..Len(s)}

RECURSIVE SumSeq(_)
SumSeq(s) == IF s = <<>> THEN 0 ELSE Head(s) + SumSeq(Tail(s))

SetMin(S) == CHOOSE x \in S : \A y \in S : x <= y
SetMax(S) == CHOOSE x \in S : \A y \in S : x >= y


\* UUID(s): every id of the model but Malformed parses
is_uuid(s) == s # Malformed

(***************************************************************************)
(* Route data as the engines build it: every engine numbers the points of   *)
(* a route by their position (enumerate), so sequence = index.              *)
(***************************************************************************)
EnginePoints(ids) == [i \in 1..Len(ids) |-> [order_id |-> ids[i], sequence |-> i - 1]]

IdLists(S) == UNION {[1..k -> S] : k \in 0..MaxPoints}

\* what an engine may put into route_data["points"][i]["order_id"]
EngineOrderIds == Orders \cup {Malformed}

\* route_data of an engine, with a total_distance out of the given ones
RoutesOfLength(distances) ==
    {[courier_id |-> c, depot_id |-> d, points |-> EnginePoints(ids), total_distance |-> t] :
        c \in Couriers, d \in Depots, ids \in IdLists(EngineOrderIds), t \in distances}

EngineRoutes == RoutesOfLength({1})

\* bodies of POST /routes/: pydantic has parsed the UUIDs already
ApiRoutes ==
    {[courier_id |-> c, depot_id |-> d, points |-> EnginePoints(ids), total_distance |-> 1] :
        c \in Couriers, d \in Depots, ids \in IdLists(Orders \cup {UnknownOrder})}

NoRoute == [courier_id |-> NoCourier, depot_id |-> NoDepot, points |-> <<>>]
NoResponse ==
    [id |-> 0, courier_id |-> NoCourier, depot_id |-> NoDepot, points |-> <<>>,
     total_distance |-> 0]

(***************************************************************************)
(* schemas/route.py: RouteCreate.validate_points_sequence                   *)
(***************************************************************************)
validate_points_sequence(points) ==
    IF points = <<>> THEN TRUE
    ELSE LET sequences == {points[i].sequence : i \in 1..Len(points)} IN
         /\ Cardinality(sequences) = Len(points)
         /\ sequences = SetMin(sequences)..SetMax(sequences)

(***************************************************************************)
(* RouteService._calculate_route_load / _validate_route_capacity, read      *)
(* through the session (view = what the session's identity map shows).      *)
(***************************************************************************)
calculate_route_load(points) ==
    SumSeq([i \in 1..Len(points) |->
              IF points[i].order_id \in Orders THEN items_count(points[i].order_id) ELSE 0])

validate_route_capacity(points, capacity) == calculate_route_load(points) <= capacity

(***************************************************************************)
(* The AsyncSession: view is the Order objects as the session holds them,   *)
(* dirty the ones it changed, new_points the RoutePoint objects added and   *)
(* not yet flushed. commit() writes all of it; close() drops it.            *)
(***************************************************************************)
commit_orders(tbl, view, dirty) == [o \in Orders |-> IF o \in dirty THEN view[o] ELSE tbl[o]]

NewRouteId(R) == SetMin((1..MaxStoredRoutes) \ {r.id : r \in R})

(***************************************************************************)
(* RouteService.create_route, lines 82-113: the loop over the points.       *)
(***************************************************************************)
order_is_pending_unchecked(view, order_id) == TRUE

\* lines 93-99: only an order the session sees as PENDING may enter a route
order_is_pending(view, order_id) == view[order_id].status = PENDING

RECURSIVE add_route_points(_, _, _, _, _, _)
add_route_points(view, dirty, new_points, rid, cid, pts) ==
    IF pts = <<>>
    THEN [ok |-> TRUE, reason |-> "emitted",
          view |-> view, dirty |-> dirty, new_points |-> new_points]
    ELSE LET p == Head(pts) IN
         IF p.order_id \notin Orders
         THEN [ok |-> FALSE, reason |-> "order not found",
               view |-> view, dirty |-> dirty, new_points |-> new_points]
         ELSE IF ~order_is_pending(view, p.order_id)
         THEN [ok |-> FALSE, reason |-> "order not pending",
               view |-> view, dirty |-> dirty, new_points |-> new_points]
         ELSE add_route_points(
                [view EXCEPT ![p.order_id] = [status |-> ASSIGNED, courier_id |-> cid]],
                dirty \cup {p.order_id},
                new_points \cup {[route_id |-> rid, order_id |-> p.order_id,
                                  sequence |-> p.sequence]},
                rid, cid, Tail(pts))

(***************************************************************************)
(* RouteService.create_route on the tables (tbl, R, P) in a session          *)
(* (view, dirty, new_points). The checks of lines 39-64 raise before         *)
(* anything is written; line 79 commits the route row, and with it whatever  *)
(* the session still holds unflushed; lines 84-113 add the points; line 116  *)
(* commits them.                                                             *)
(***************************************************************************)
create_route(tbl, R, P, view, dirty, new_points, rc) ==
    LET unchanged(reason) ==
            [ok |-> FALSE, reason |-> reason,
             orders |-> tbl, routes |-> R, route_points |-> P,
             view |-> view, dirty |-> dirty, new_points |-> new_points,
             response |-> NoResponse]
    IN
    IF rc.courier_id \notin StoredCouriers THEN unchanged("courier not found")
    ELSE IF rc.depot_id \notin depots THEN unchanged("depot not found")
    ELSE IF courier_depot_id[rc.courier_id] # rc.depot_id THEN unchanged("other depot")
    ELSE IF Len(rc.points) > 0
            /\ ~validate_route_capacity(rc.points, max_capacity(rc.courier_id))
    THEN unchanged("capacity")
    ELSE
      LET rid == NewRouteId(R)
          tbl1 == commit_orders(tbl, view, dirty)
          R1 == R \cup {[id |-> rid, courier_id |-> rc.courier_id, depot_id |-> rc.depot_id]}
          P1 == P \cup new_points
          loop == add_route_points(view, {}, {}, rid, rc.courier_id, rc.points)
      IN
      IF loop.ok
      THEN [ok |-> TRUE, reason |-> loop.reason,
            orders |-> commit_orders(tbl1, loop.view, loop.dirty),
            routes |-> R1,
            route_points |-> P1 \cup loop.new_points,
            view |-> loop.view, dirty |-> {}, new_points |-> {},
            response |-> [id |-> rid, courier_id |-> rc.courier_id,
                          depot_id |-> rc.depot_id, points |-> rc.points,
                          total_distance |-> rc.total_distance]]
      ELSE [ok |-> FALSE, reason |-> loop.reason,
            orders |-> tbl1, routes |-> R1, route_points |-> P1,
            view |-> loop.view, dirty |-> loop.dirty, new_points |-> loop.new_points,
            response |-> NoResponse]

(***************************************************************************)
(* routes/route.py, optimize_routes lines 265-279 (and 419-433 of           *)
(* optimize_routes_genetic): the points whose order_id parses, each with    *)
(* the sequence the engine gave it.                                         *)
(***************************************************************************)
courier_used_ignored(courier_id, used_courier_ids) == FALSE

\* lines 259-263 and 413-417: the courier already has a route in this response
courier_used(courier_id, used_courier_ids) == courier_id \in used_courier_ids

RECURSIVE valid_points(_)
valid_points(pts) ==
    IF pts = <<>> THEN <<>>
    ELSE IF is_uuid(Head(pts).order_id) THEN <<Head(pts)>> \o valid_points(Tail(pts))
    ELSE valid_points(Tail(pts))

(***************************************************************************)
(* CourierService.get_available_couriers_by_depot                           *)
(***************************************************************************)
get_available_couriers_by_depot(depot_id) ==
    LET all_couriers == {c \in StoredCouriers : courier_depot_id[c] = depot_id}
        busy_courier_ids == {r.courier_id : r \in {x \in routes : x.depot_id = depot_id}}
    IN all_couriers \ busy_courier_ids

get_orders_of_any_status == Orders

\* OrderService.get_pending_orders
get_pending_orders == {o \in Orders : orders[o].status = PENDING}

(***************************************************************************)
(* The request state. pc: "idle" (no optimization request since the last    *)
(* other operation), "arbiter" (inside the loop over optimized_routes),     *)
(* "done" (OptimizationResponse returned), "failed" (HTTPException).        *)
(***************************************************************************)
IdleSession ==
    [pc |-> "idle", view |-> orders, dirty |-> {}, new_points |-> {},
     used_courier_ids |-> {}, routes_response |-> <<>>, n |-> 0,
     total_orders |-> 0, assigned_orders |-> 0, total_distance |-> 0,
     started_empty |-> FALSE,
     outcome |-> "none", op |-> "init"]

\* no engine has been called
NoProblem == [depots |-> <<>>, orders |-> <<>>, couriers |-> <<>>]
NoEngine == [algorithm |-> "none", solution |-> "none", routes |-> <<>>]
NoGa == [pc |-> "none", individual |-> <<>>, best_individual |-> <<>>, generation |-> 0]
\* no distance matrix is being computed
NoOsrm == [pc |-> "none"]

\* no partitioner has been called
NoBuckets == [by |-> "none", orders_by_depot |-> <<>>]

\* the nearest-neighbour loop has not been entered
NoNn == [pc |-> "none"]

InitAux == osrm = NoOsrm /\ buckets = NoBuckets /\ nn = NoNn

InitDb ==
    /\ courier_depot_id = [c \in Couriers |-> courier_depot(c)]
    /\ orders = [o \in Orders |-> [status |-> PENDING, courier_id |-> NoCourier]]
    /\ routes = {}
    /\ route_points = {}
    /\ session = IdleSession

Init ==
    /\ depots \in {{}, {"d1"}, {"d1", "d2"}}
    /\ InitDb
    /\ problem = NoProblem
    /\ engine = NoEngine
    /\ ga = NoGa
    /\ InitAux

Serving == session.pc = "arbiter"

(***************************************************************************)
(* POST /routes/optimize and /routes/optimize/genetic up to the engine      *)
(* call (lines 184-214, 346-376): the depot filter, the free couriers, the  *)
(* pending orders. Any of them empty ends the request with an error.        *)
(***************************************************************************)
inputs_missing_orders_unchecked(found, chosen, all_couriers, pending) ==
    ~found \/ chosen = {} \/ all_couriers = {}

depot_found(depot_id) == depot_id = NoDepot \/ depot_id \in depots

chosen_depots(depot_id) == IF depot_id = NoDepot THEN depots ELSE {depot_id} \cap depots

available_couriers(depot_id) ==
    UNION {get_available_couriers_by_depot(d) : d \in chosen_depots(depot_id)}

\* lines 187-189, 195-196, 205-209, 213-214: the four ways the request is refused
inputs_missing(found, chosen, all_couriers, pending) ==
    ~found \/ chosen = {} \/ all_couriers = {} \/ pending = {}

optimize_begin(depot_id) ==
    /\ ~Serving
    /\ LET pending == get_pending_orders
           fails == inputs_missing(depot_found(depot_id), chosen_depots(depot_id),
                                   available_couriers(depot_id), pending)
       IN session' = [IdleSession EXCEPT
                        !.pc = IF fails THEN "failed" ELSE "arbiter",
                        !.total_orders = IF fails THEN 0 ELSE Cardinality(pending),
                        !.started_empty = routes = {},
                        !.op = "optimize_begin"]
    /\ UNCHANGED <<dbVars, engVars, auxVars>>

(***************************************************************************)
(* One iteration of the loop over optimized_routes (lines 255-303 and       *)
(* 409-457). Every exception inside is caught and the loop continues.       *)
(***************************************************************************)
optimize_route(route_data) ==
    /\ Serving
    /\ session.n < MaxRoutes
    /\ Cardinality(routes) < MaxStoredRoutes
    /\ LET points == valid_points(route_data.points)
           rc == [courier_id |-> route_data.courier_id, depot_id |-> route_data.depot_id,
                  points |-> points, total_distance |-> route_data.total_distance]
           skip == IF ~is_uuid(route_data.courier_id) THEN "invalid"
                   ELSE IF courier_used(route_data.courier_id, session.used_courier_ids)
                        THEN "duplicate"
                   ELSE IF points = <<>> THEN "empty"
                   ELSE IF ~validate_points_sequence(points) THEN "invalid"
                   ELSE "no"
           res == create_route(orders, routes, route_points,
                               session.view, session.dirty, session.new_points, rc)
       IN IF skip # "no"
          THEN /\ session' = [session EXCEPT !.n = @ + 1,
                                             !.outcome = skip, !.op = "optimize_route"]
               /\ UNCHANGED <<dbVars, engVars, auxVars>>
          ELSE /\ orders' = res.orders
               /\ routes' = res.routes
               /\ route_points' = res.route_points
               /\ session' = [session EXCEPT
                                !.view = res.view, !.dirty = res.dirty,
                                !.new_points = res.new_points,
                                !.used_courier_ids =
                                    IF res.ok THEN @ \cup {route_data.courier_id} ELSE @,
                                !.routes_response =
                                    IF res.ok THEN Append(@, res.response) ELSE @,
                                !.n = @ + 1,
                                !.outcome = res.reason,
                                !.op = "optimize_route"]
               /\ UNCHANGED <<depots, courier_depot_id, engVars, auxVars>>

(***************************************************************************)
(* The end of the handler (lines 305-320, 459-474): the summary, and        *)
(* get_db closes the session, which drops what was never committed.         *)
(***************************************************************************)
assigned_orders_by_routes(routes_response) == Len(routes_response)

\* line 309 (463): sum(route.total_distance for route in routes_response)
summary_total_distance(routes_response) ==
    SumSeq([i \in 1..Len(routes_response) |-> routes_response[i].total_distance])

\* line 310 (464): sum(len(route.points) for route in routes_response)
summary_assigned_orders(routes_response) ==
    SumSeq([i \in 1..Len(routes_response) |-> Len(routes_response[i].points)])

optimize_end ==
    /\ Serving
    /\ session' = [session EXCEPT
                     !.pc = "done", !.view = orders, !.dirty = {}, !.new_points = {},
                     !.total_distance = summary_total_distance(session.routes_response),
                     !.assigned_orders = summary_assigned_orders(session.routes_response),
                     !.op = "optimize_end"]
    /\ UNCHANGED <<dbVars, engVars, auxVars>>

(***************************************************************************)
(* POST /routes/: RouteCreate validation, then create_route in a session    *)
(* of its own, closed when the request ends.                                *)
(***************************************************************************)
post_route(rc) ==
    /\ ~Serving
    /\ Cardinality(routes) < MaxStoredRoutes
    /\ validate_points_sequence(rc.points)
    /\ LET res == create_route(orders, routes, route_points, orders, {}, {}, rc)
       IN /\ orders' = res.orders
          /\ routes' = res.routes
          /\ route_points' = res.route_points
          /\ session' = [IdleSession EXCEPT !.view = res.orders, !.op = "post_route"]
    /\ UNCHANGED <<depots, courier_depot_id, engVars, auxVars>>

release_assigned_skipped(tbl, released) == tbl

\* delete_route lines 319-326: the ASSIGNED orders of the points go back to PENDING
release_assigned(tbl, released) ==
    [o \in Orders |->
        IF o \in released /\ tbl[o].status = ASSIGNED
        THEN [status |-> PENDING, courier_id |-> NoCourier]
        ELSE tbl[o]]

(***************************************************************************)
(* RouteService.delete_route                                                *)
(***************************************************************************)
delete_route(route_id) ==
    /\ ~Serving
    /\ \E r \in routes : r.id = route_id
    /\ LET pts == {p \in route_points : p.route_id = route_id}
           released == {p.order_id : p \in pts}
       IN /\ orders' = release_assigned(orders, released)
          /\ route_points' = route_points \ pts
          /\ routes' = {r \in routes : r.id # route_id}
    /\ session' = [IdleSession EXCEPT !.view = orders', !.op = "delete_route"]
    /\ UNCHANGED <<depots, courier_depot_id, engVars, auxVars>>

(***************************************************************************)
(* RouteService.reset_all_routes (POST /routes/reset)                       *)
(***************************************************************************)
reset_all_routes ==
    /\ ~Serving
    /\ LET ids == {r.id : r \in routes}
           pts == {p \in route_points : p.route_id \in ids}
           released == {p.order_id : p \in pts}
       IN /\ orders' = [o \in Orders |->
                          IF o \in released
                          THEN [status |-> PENDING, courier_id |-> NoCourier]
                          ELSE orders[o]]
          /\ route_points' = route_points \ pts
          /\ routes' = {}
    /\ session' = [IdleSession EXCEPT !.view = orders', !.op = "reset_all_routes"]
    /\ UNCHANGED <<depots, courier_depot_id, engVars, auxVars>>

\* optimization requests, served one at a time, with deletions and resets between
Next ==
    \/ \E d \in Depots \cup {NoDepot, "dx"} : optimize_begin(d)
    \/ \E rd \in EngineRoutes : optimize_route(rd)
    \/ optimize_end
    \/ \E id \in 1..MaxStoredRoutes : delete_route(id)
    \/ reset_all_routes

Spec == Init /\ [][Next]_vars

\* the route operations of RouteService alone
NextRoutes ==
    \/ \E rc \in ApiRoutes : post_route(rc)
    \/ \E id \in 1..MaxStoredRoutes : delete_route(id)
    \/ reset_all_routes

SpecRoutes == Init /\ [][NextRoutes]_vars

TypeOK ==
    /\ depots \subseteq Depots
    /\ \A o \in Orders : orders[o].status \in {PENDING, ASSIGNED}
    /\ \A r \in routes : r.id \in 1..MaxStoredRoutes /\ r.courier_id \in Couriers
    /\ session.pc \in {"idle", "arbiter", "done", "failed"}

(***************************************************************************)
(* Properties of an optimization session (specification Spec)              *)
(***************************************************************************)
response == session.routes_response

PointCount(rs) == SumSeq([i \in 1..Len(rs) |-> Len(rs[i].points)])

OrderIds(pts) == [i \in 1..Len(pts) |-> pts[i].order_id]

\* C1: in one optimization session, whatever list of routes the engine
\* returns (several routes of one courier included), the routes of the
\* response name each courier id at most once.
C1_OneRoutePerCourier ==
    \A i, j \in 1..Len(response) :
        response[i].courier_id = response[j].courier_id => i = j

\* a route was skipped because its courier already had one in the response
C1_Witness == session.outcome = "duplicate" /\ Len(response) >= 1

\* C4: every route of the response with k points carries the sequence
\* values 0, 1, ..., k-1, each once, also when malformed points were skipped.
C4_SequencesFromZero ==
    \A i \in 1..Len(response) :
        LET pts == response[i].points IN
        /\ {pts[j].sequence : j \in 1..Len(pts)} = 0..(Len(pts) - 1)
        /\ \A j, k \in 1..Len(pts) : pts[j].sequence = pts[k].sequence => j = k

\* C5: the assigned-order count of the response (the points of the surviving
\* routes) never exceeds the number of pending orders given to the engine,
\* also when the engine names one order in several routes or twice in one.
C5_AssignedAtMostPending ==
    /\ session.pc \in {"arbiter", "done"} => PointCount(response) <= session.total_orders
    /\ session.pc = "done" => session.assigned_orders <= session.total_orders

\* the response is complete, a route was refused because it named an order
\* that was no longer pending, and other orders were assigned
C5_Witness ==
    /\ session.pc = "done"
    /\ session.outcome = "order not pending"
    /\ session.assigned_orders >= 1

\* C7: after an optimization session that started with no stored routes the
\* stored routes are exactly the routes of the response, also when
\* persisting some route failed.
C7_StoredEqualsResponse ==
    (session.pc = "done" /\ session.started_empty) =>
        /\ Cardinality(routes) = Len(response)
        /\ {r.id : r \in routes} = {response[i].id : i \in 1..Len(response)}

C8_Case(depot_id) ==
    \/ depots = {}
    \/ depot_id # NoDepot /\ depot_id \notin depots
    \/ available_couriers(depot_id) = {}
    \/ get_pending_orders = {}

\* C8: with no depot, no available courier or no pending order, or with a
\* depot filter naming no stored depot, the optimization call fails, emits
\* no route and stores nothing.
C8_EmptyInputsFail ==
    [][\A d \in Depots \cup {NoDepot, "dx"} :
          (optimize_begin(d) /\ C8_Case(d)) =>
              /\ session'.pc = "failed"
              /\ session'.routes_response = <<>>
              /\ UNCHANGED dbVars]_vars

\* a request was refused while depots and routes were stored
C8_Witness == session.pc = "failed" /\ depots # {} /\ routes # {}

C9_WellFormed(rd) ==
    [courier_id |-> rd.courier_id, depot_id |-> rd.depot_id,
     points |-> EnginePoints(OrderIds(valid_points(rd.points))),
     total_distance |-> rd.total_distance]

\* rd has malformed points and at least one well-formed one, and the route of
\* its well-formed points alone would be emitted
C9_Case(rd) ==
    /\ \E i \in 1..Len(rd.points) : ~is_uuid(rd.points[i].order_id)
    /\ valid_points(rd.points) # <<>>
    /\ ~courier_used(rd.courier_id, session.used_courier_ids)
    /\ create_route(orders, routes, route_points,
                    session.view, session.dirty, session.new_points,
                    C9_WellFormed(rd)).ok

\* C9: a route of the engine with malformed order ids and at least one
\* well-formed point is emitted with exactly its well-formed points,
\* wherever in the route the malformed points stand.
C9_MalformedPointsSkipped ==
    [][\A rd \in EngineRoutes :
          (optimize_route(rd) /\ C9_Case(rd)) =>
              /\ session'.outcome = "emitted"
              /\ Len(session'.routes_response) = Len(session.routes_response) + 1
              /\ OrderIds(session'.routes_response[Len(session'.routes_response)].points)
                    = OrderIds(valid_points(rd.points))]_vars

(***************************************************************************)
(* Properties of the route operations (specification SpecRoutes)           *)
(***************************************************************************)
\* the existing routes that have a point referencing order o
Holders(o) ==
    {r \in routes : \E p \in route_points : p.route_id = r.id /\ p.order_id = o}

\* C6: from all orders PENDING with no courier, after any sequence of route
\* creations, deletions and resets, an order is ASSIGNED with courier c
\* exactly when a point of an existing route of courier c references it,
\* every other order is PENDING with no courier, and after a reset no route
\* and no route point exists.
C6_AssignedIffRoutePoint ==
    /\ \A o \in Orders :
          IF Holders(o) = {}
          THEN orders[o] = [status |-> PENDING, courier_id |-> NoCourier]
          ELSE /\ orders[o].status = ASSIGNED
               /\ \A r \in Holders(o) : r.courier_id = orders[o].courier_id
    /\ session.op = "reset_all_routes" => routes = {} /\ route_points = {}

\* a route was deleted while another route keeps its order assigned
C6_Witness ==
    /\ session.op = "delete_route"
    /\ \E o \in Orders : Holders(o) # {} /\ orders[o].status = ASSIGNED
    /\ \E o \in Orders : Holders(o) = {} /\ orders[o].status = PENDING

(***************************************************************************)
(* The engines: what RouteOptimizer is called with.                        *)
(* A location is <<x>>, a point of a line measured in km, or <<>> when      *)
(* _create_location_from_dict returns None.                                 *)
(***************************************************************************)
\* the defaults of courier.get(...) in the engines
DefaultMaxCapacity == 10
DefaultMaxWeight == 50
DefaultMaxDistance == 50

\* Courier.max_weight and Courier.max_distance columns
max_weight(c) == IF c = "c1" THEN 30 ELSE 50
max_distance(c) == IF c = "c1" THEN 4 ELSE 50

depot_location(d) == IF d = "d1" THEN <<0>> ELSE <<4>>

\* DepotResponse.model_dump()
depot_model_dump(d) == [id |-> d, location |-> depot_location(d)]

\* CourierResponse.model_dump(): the schema has no max_weight field
courier_model_dump(c) ==
    [id |-> c, depot_id |-> courier_depot(c),
     max_capacity |-> max_capacity(c), max_distance |-> max_distance(c)]

\* dict.get(key, default)
get(dict, key, default) == IF key \in DOMAIN dict THEN dict[key] ELSE default

\* Location.distance_to, and the entries of _compute_distance_matrix
distance_to(a, b) == IF a[1] >= b[1] THEN a[1] - b[1] ELSE b[1] - a[1]

RemoveAt(s, i) == SubSeq(s, 1, i - 1) \o SubSeq(s, i + 1, Len(s))

(***************************************************************************)
(* RouteOptimizer._optimize_route_order: from the depot always to the       *)
(* nearest unvisited order, the first of the list among equally near ones.  *)
(***************************************************************************)
nearest_index(current, unvisited) ==
    CHOOSE i \in 1..Len(unvisited) :
        \A j \in 1..Len(unvisited) :
            /\ distance_to(current, unvisited[i].location)
                  <= distance_to(current, unvisited[j].location)
            /\ j < i => distance_to(current, unvisited[j].location)
                           > distance_to(current, unvisited[i].location)

RECURSIVE visit_nearest(_, _, _)
visit_nearest(current, unvisited, depot) ==
    IF unvisited = <<>>
    THEN [orders |-> <<>>, total_distance |-> distance_to(current, depot)]
    ELSE LET i == nearest_index(current, unvisited)
             rest == visit_nearest(unvisited[i].location, RemoveAt(unvisited, i), depot)
         IN [orders |-> <<unvisited[i]>> \o rest.orders,
             total_distance |->
                 distance_to(current, unvisited[i].location) + rest.total_distance]

\* the orders in the order they were assigned, with the length of that path
route_order_as_assigned(route_orders, depot) ==
    LET n == Len(route_orders)
        place(j) == IF j = 0 \/ j = n + 1 THEN depot ELSE route_orders[j].location
    IN [orders |-> route_orders,
        total_distance |->
            IF n = 0 THEN 0
            ELSE SumSeq([j \in 1..(n + 1) |-> distance_to(place(j - 1), place(j))])]

optimize_route_order(route_orders, depot) ==
    IF route_orders = <<>> THEN [orders |-> <<>>, total_distance |-> 0]
    ELSE visit_nearest(depot, route_orders, depot)

(***************************************************************************)
(* RouteOptimizer._simple_distribution: equal slices of the order list,     *)
(* with no check of any limit.                                              *)
(***************************************************************************)
simple_distribution(depot_id, order_list, couriers) ==
    LET per == IF Len(order_list) \div Len(couriers) >= 1
               THEN Len(order_list) \div Len(couriers) ELSE 1
        slice(i) == SubSeq(order_list, (i - 1) * per + 1,
                           IF i * per <= Len(order_list) THEN i * per ELSE Len(order_list))
        all == [i \in 1..Len(couriers) |->
                  [courier_id |-> couriers[i].id, depot_id |-> depot_id,
                   points |-> EnginePoints([j \in 1..Len(slice(i)) |-> slice(i)[j].id]),
                   total_distance |-> 0,
                   total_load |-> SumSeq([j \in 1..Len(slice(i)) |-> slice(i)[j].items_count]),
                   total_weight |-> SumSeq([j \in 1..Len(slice(i)) |-> slice(i)[j].weight])]]
    IN SelectSeq(all, LAMBDA r : r.points # <<>>)

(***************************************************************************)
(* RouteOptimizer._optimize_with_nearest_neighbor                           *)
(***************************************************************************)
\* lines 117-125: the located orders, nearest to the depot first (stable sort)
orders_as_given(order_list, depot) == SelectSeq(order_list, LAMBDA o : o.location # <<>>)

RECURSIVE sorted_orders(_, _)
sorted_orders(order_list, depot) ==
    IF order_list = <<>> THEN <<>>
    ELSE LET n == Len(order_list)
             x == order_list[n]
             rest == sorted_orders(SubSeq(order_list, 1, n - 1), depot)
             k == Cardinality({i \in 1..Len(rest) :
                     distance_to(depot, rest[i].location) <= distance_to(depot, x.location)})
         IN IF x.location = <<>> THEN rest
            ELSE SubSeq(rest, 1, k) \o <<x>> \o SubSeq(rest, k + 1, Len(rest))

distance_unchecked(total_distance, courier) == TRUE

\* line 166: the tentative route is within the courier's max_distance
distance_ok(total_distance, courier) ==
    total_distance <= get(courier, "max_distance", DefaultMaxDistance)

\* lines 145-183: offer the order to the couriers in turn, from courier_index on
RECURSIVE try_couriers(_, _, _, _, _, _)
try_couriers(order, couriers, courier_routes, courier_index, attempts, depot) ==
    IF attempts >= Len(couriers)
    THEN [courier_routes |-> courier_routes, courier_index |-> courier_index,
          assigned |-> FALSE, attempts |-> attempts]
    ELSE LET courier == couriers[courier_index]
             route_info == courier_routes[courier_index]
             items_ok == route_info.current_load + order.items_count
                            <= get(courier, "max_capacity", DefaultMaxCapacity)
             weight_ok == route_info.current_weight + order.weight
                            <= get(courier, "max_weight", DefaultMaxWeight)
             temp_optimized == optimize_route_order(Append(route_info.orders, order), depot)
             fits == /\ items_ok
                     /\ weight_ok
                     /\ distance_ok(temp_optimized.total_distance, courier)
             next_index == (courier_index % Len(couriers)) + 1
         IN IF fits
            THEN [courier_routes |->
                     [courier_routes EXCEPT ![courier_index] =
                         [orders |-> Append(route_info.orders, order),
                          current_load |-> route_info.current_load + order.items_count,
                          current_weight |-> route_info.current_weight + order.weight]],
                  courier_index |-> next_index,
                  assigned |-> TRUE, attempts |-> attempts + 1]
            ELSE try_couriers(order, couriers, courier_routes, next_index, attempts + 1, depot)

\* lines 140-186: the loop over the sorted orders
RECURSIVE distribute(_, _, _, _, _)
distribute(order_list, couriers, courier_routes, courier_index, depot) ==
    IF order_list = <<>> THEN courier_routes
    ELSE LET r == try_couriers(Head(order_list), couriers, courier_routes,
                               courier_index, 0, depot)
         IN distribute(Tail(order_list), couriers, r.courier_routes, r.courier_index, depot)

\* lines 127-135: no courier has an order yet
empty_courier_routes(couriers) ==
    [i \in 1..Len(couriers) |-> [orders |-> <<>>, current_load |-> 0, current_weight |-> 0]]

\* lines 188-229: a route for every courier that has orders
routes_of_couriers(depot_data, couriers, courier_routes) ==
    LET route(i) ==
            LET optimized_route ==
                    optimize_route_order(courier_routes[i].orders, depot_data.location)
            IN [courier_id |-> couriers[i].id, depot_id |-> depot_data.id,
                points |-> EnginePoints([j \in 1..Len(optimized_route.orders) |->
                                            optimized_route.orders[j].id]),
                total_distance |-> optimized_route.total_distance,
                total_load |-> courier_routes[i].current_load,
                total_weight |-> courier_routes[i].current_weight]
    IN SelectSeq([i \in 1..Len(couriers) |-> route(i)], LAMBDA r : r.points # <<>>)

optimize_with_nearest_neighbor(depot_data, order_list, couriers) ==
    IF depot_data.location = <<>>
    THEN simple_distribution(depot_data.id, order_list, couriers)
    ELSE IF sorted_orders(order_list, depot_data.location) = <<>>
    THEN simple_distribution(depot_data.id, order_list, couriers)
    ELSE
      LET depot == depot_data.location
          courier_routes == distribute(sorted_orders(order_list, depot), couriers,
                                       empty_courier_routes(couriers), 1, depot)
      IN routes_of_couriers(depot_data, couriers, courier_routes)

(***************************************************************************)
(* RouteOptimizer._assign_orders_to_depots: every order goes to the nearest *)
(* located depot, the first of the list among equally near ones; an order   *)
(* without location goes to the first depot.                                *)
(***************************************************************************)
best_depot_id(order, depots_data) ==
    LET located == {i \in 1..Len(depots_data) : depots_data[i].location # <<>>}
        d(i) == distance_to(order.location, depots_data[i].location)
    IN IF order.location = <<>> \/ located = {} THEN depots_data[1].id
       ELSE depots_data[CHOOSE i \in located :
                           \A j \in located : d(i) <= d(j) /\ (j < i => d(j) > d(i))].id

assign_orders_to_depots(order_list, depots_data, depot_id) ==
    SelectSeq(order_list, LAMBDA o : best_depot_id(o, depots_data) = depot_id)

(***************************************************************************)
(* RouteOptimizer.optimize_routes_multi_depot with "nearest_neighbor":      *)
(* depot after depot, each with its own couriers and its nearest orders.    *)
(***************************************************************************)
RECURSIVE routes_of_depots(_, _, _, _)
routes_of_depots(todo, depots_data, order_list, couriers) ==
    IF todo = <<>> THEN <<>>
    ELSE LET depot_data == Head(todo)
             depot_orders == assign_orders_to_depots(order_list, depots_data, depot_data.id)
             depot_couriers == SelectSeq(couriers, LAMBDA c : c.depot_id = depot_data.id)
             depot_routes == IF depot_orders # <<>> /\ depot_couriers # <<>>
                             THEN optimize_with_nearest_neighbor(
                                      depot_data, depot_orders, depot_couriers)
                             ELSE <<>>
         IN depot_routes \o routes_of_depots(Tail(todo), depots_data, order_list, couriers)

optimize_routes_multi_depot(depots_data, order_list, couriers) ==
    IF order_list = <<>> \/ couriers = <<>> \/ depots_data = <<>> THEN <<>>
    ELSE routes_of_depots(depots_data, depots_data, order_list, couriers)

(***************************************************************************)
(* The OR-Tools solver. SolveWithParameters returns None or an assignment   *)
(* that visits every located order once and keeps the hard dimensions:      *)
(* items, weight, and the route length. Which assignment it returns among   *)
(* those is left open.                                                      *)
(***************************************************************************)
\* the length limit of the Distance dimension, km: single depot, multi depot
OrToolsMaxDistance == 50
OrToolsMultiDepotMaxDistance == 100

NoSolution == <<>>

MetresPerKm == 1000

Injections(n) == {p \in [1..n -> 1..n] : \A i, j \in 1..n : p[i] = p[j] => i = j}

\* vehicle v visits, in the order of visit, the orders f sends to it
Assignments(located, n) ==
    {[v \in 1..n |->
        LET idx == SelectSeq([k \in 1..Len(located) |-> visit[k]], LAMBDA i : f[i] = v)
        IN [j \in 1..Len(idx) |-> located[idx[j]]]] :
     visit \in Injections(Len(located)), f \in [1..Len(located) -> 1..n]}

RECURSIVE path_distance(_, _, _)
path_distance(current, route_orders, end) ==
    IF route_orders = <<>> THEN distance_to(current, end)
    ELSE distance_to(current, Head(route_orders).location)
            + path_distance(Head(route_orders).location, Tail(route_orders), end)

route_load(route_orders) ==
    SumSeq([j \in 1..Len(route_orders) |-> route_orders[j].items_count])

route_weight(route_orders) ==
    SumSeq([j \in 1..Len(route_orders) |-> route_orders[j].weight])

\* starts[v]: the depot vehicle v leaves from and returns to
Solutions(located, couriers, starts, limit) ==
    {sol \in Assignments(located, Len(couriers)) :
        \A v \in 1..Len(couriers) :
            /\ route_load(sol[v]) <= get(couriers[v], "max_capacity", DefaultMaxCapacity)
            /\ route_weight(sol[v]) <= get(couriers[v], "max_weight", DefaultMaxWeight)
            /\ sol[v] # <<>> =>
                  path_distance(starts[v].location, sol[v], starts[v].location) <= limit}

\* line 280 (1324): distance_matrix_int = (distance_matrix * 1000).astype(int),
\* for a distance d given in units of which units_per_km make a kilometre
distance_matrix_int(d, units_per_km) == (d * MetresPerKm) \div units_per_km

\* lines 454-456: route_distance, the arc costs from Start to End
RECURSIVE route_distance(_, _, _, _)
route_distance(current, route_orders, end, units_per_km) ==
    IF route_orders = <<>> THEN distance_matrix_int(distance_to(current, end), units_per_km)
    ELSE distance_matrix_int(distance_to(current, Head(route_orders).location), units_per_km)
            + route_distance(Head(route_orders).location, Tail(route_orders), end, units_per_km)

\* lines 426-477 and 1485-1540: the routes of the vehicles that visit an order,
\* total_distance = route_distance / 1000.0
solution_routes_in(units_per_km, solution, couriers, starts, depot_ids) ==
    SelectSeq([v \in 1..Len(couriers) |->
                  [courier_id |-> couriers[v].id, depot_id |-> depot_ids[v],
                   points |-> EnginePoints([j \in 1..Len(solution[v]) |-> solution[v][j].id]),
                   total_distance |->
                       IF solution[v] = <<>> THEN 0
                       ELSE (route_distance(starts[v].location, solution[v],
                                            starts[v].location, units_per_km)
                                * units_per_km) \div MetresPerKm,
                   total_load |-> route_load(solution[v]),
                   total_weight |-> route_weight(solution[v])]],
              LAMBDA r : r.points # <<>>)

\* the routes of a solution, all distances in kilometres
solution_routes(solution, couriers, starts, depot_ids) ==
    solution_routes_in(1, solution, couriers, starts, depot_ids)

located_orders(order_list) == SelectSeq(order_list, LAMBDA o : o.location # <<>>)

or_tools_fallback_none(depot_data, order_list, couriers) == <<>>

\* lines 417-422: no solution, the nearest neighbour engine on the same inputs
or_tools_fallback(depot_data, order_list, couriers) ==
    optimize_with_nearest_neighbor(depot_data, order_list, couriers)

\* lines 1476-1481: no solution, nearest neighbour depot by depot
or_tools_multi_depot_fallback(depots_data, order_list, couriers) ==
    optimize_routes_multi_depot(depots_data, order_list, couriers)

single_starts(depot_data, couriers) == [v \in 1..Len(couriers) |-> depot_data]

optimize_with_or_tools(depot_data, order_list, couriers, solution) ==
    IF depot_data.location = <<>> \/ located_orders(order_list) = <<>>
    THEN simple_distribution(depot_data.id, order_list, couriers)
    ELSE IF solution = NoSolution
    THEN or_tools_fallback(depot_data, order_list, couriers)
    ELSE solution_routes(solution, couriers, single_starts(depot_data, couriers),
                         [v \in 1..Len(couriers) |-> depot_data.id])

\* lines 1330-1334: a courier starts at its depot, at the first one if it is not listed
multi_starts(depots_data, couriers) ==
    LET located == SelectSeq(depots_data, LAMBDA d : d.location # <<>>)
    IN [v \in 1..Len(couriers) |->
          IF \E i \in 1..Len(located) : located[i].id = couriers[v].depot_id
          THEN located[CHOOSE i \in 1..Len(located) : located[i].id = couriers[v].depot_id]
          ELSE located[1]]

optimize_with_or_tools_multi_depot(depots_data, order_list, couriers, solution) ==
    IF order_list = <<>> \/ couriers = <<>> \/ depots_data = <<>> THEN <<>>
    ELSE IF located_orders(order_list) = <<>>
            \/ SelectSeq(depots_data, LAMBDA d : d.location # <<>>) = <<>>
    THEN <<>>
    ELSE IF solution = NoSolution
    THEN or_tools_multi_depot_fallback(depots_data, order_list, couriers)
    ELSE solution_routes(solution, couriers, multi_starts(depots_data, couriers),
                         [v \in 1..Len(couriers) |-> couriers[v].depot_id])

(***************************************************************************)
(* RouteOptimizer.optimize_routes, and the choice of the engine entry in    *)
(* routes/route.py lines 223-249.                                           *)
(***************************************************************************)
optimize_routes(depot_data, order_list, couriers, algorithm, solution) ==
    IF order_list = <<>> \/ couriers = <<>> THEN <<>>
    ELSE IF algorithm = "or_tools"
    THEN optimize_with_or_tools(depot_data, order_list, couriers, solution)
    ELSE optimize_with_nearest_neighbor(depot_data, order_list, couriers)

engine_routes(depots_data, order_list, couriers, algorithm, solution) ==
    IF Len(depots_data) > 1
    THEN IF algorithm = "or_tools"
         THEN optimize_with_or_tools_multi_depot(depots_data, order_list, couriers, solution)
         ELSE optimize_routes_multi_depot(depots_data, order_list, couriers)
    ELSE optimize_routes(depots_data[1], order_list, couriers, algorithm, solution)

\* what the solver may answer for the problem
solver_answers(p) ==
    {NoSolution} \cup
    IF Len(p.depots) > 1
    THEN Solutions(located_orders(p.orders), p.couriers,
                   multi_starts(p.depots, p.couriers), OrToolsMultiDepotMaxDistance)
    ELSE Solutions(located_orders(p.orders), p.couriers,
                   single_starts(p.depots[1], p.couriers), OrToolsMaxDistance)

(***************************************************************************)
(* The problems the engines are run on: the pending orders, each at one of  *)
(* three places, with one or two items and a weight of 20 or 40 kg, and the *)
(* stored couriers of one depot or of both.                                 *)
(***************************************************************************)
ProblemOrderIds == <<"o1", "o2", "o3">>
OrderLocations == {<<1>>, <<2>>, <<3>>}
OrderItems == {1, 2}
OrderWeights == {20, 40}

\* OrderResponse.model_dump()
OrderData(id) ==
    {[id |-> id, status |-> PENDING, location |-> l, items_count |-> n, weight |-> w] :
        l \in OrderLocations, n \in OrderItems, w \in OrderWeights}

OrderLists ==
    {<<a, b, c>> : a \in OrderData(ProblemOrderIds[1]), b \in OrderData(ProblemOrderIds[2]),
                   c \in OrderData(ProblemOrderIds[3])}

DepotLists == {<<depot_model_dump("d1")>>, <<depot_model_dump("d1"), depot_model_dump("d2")>>}

couriers_of_any_depot(depots_data) ==
    <<courier_model_dump("c1"), courier_model_dump("c2"), courier_model_dump("c3")>>

\* routes/route.py lines 199-206: the available couriers of the depots worked on
couriers_of(depots_data) ==
    SelectSeq(<<courier_model_dump("c1"), courier_model_dump("c2"), courier_model_dump("c3")>>,
              LAMBDA c : \E i \in 1..Len(depots_data) : depots_data[i].id = c.depot_id)

Problems ==
    {[depots |-> ds, orders |-> os, couriers |-> couriers_of(ds)] :
        ds \in DepotLists, os \in OrderLists}

InitEngine ==
    /\ depots = Depots
    /\ InitDb
    /\ problem \in Problems
    /\ engine = NoEngine
    /\ ga = NoGa
    /\ InitAux

\* no engine has been started
Idle == engine.algorithm = "none" /\ ga.pc = "none"

nearest_neighbor ==
    /\ Idle
    /\ engine' = [algorithm |-> "nearest_neighbor", solution |-> "none",
                  routes |-> engine_routes(problem.depots, problem.orders, problem.couriers,
                                           "nearest_neighbor", NoSolution)]
    /\ UNCHANGED <<dbVars, session, auxVars, problem, ga>>

or_tools ==
    /\ Idle
    /\ \E solution \in solver_answers(problem) :
          engine' = [algorithm |-> "or_tools",
                     solution |-> IF solution = NoSolution THEN "not found" ELSE "found",
                     routes |-> engine_routes(problem.depots, problem.orders,
                                              problem.couriers, "or_tools", solution)]
    /\ UNCHANGED <<dbVars, session, auxVars, problem, ga>>

(***************************************************************************)
(* GeneticOptimizer. p is the data it was loaded with (add_depot,           *)
(* add_courier, add_order); a route is [courier_id, depot_id, points,       *)
(* total_distance, total_load].                                             *)
(***************************************************************************)
\* float('inf'), the default of courier_data.get("max_distance", ...)
Infinity == 1000000

order_data(p, order_id) ==
    p.orders[CHOOSE i \in 1..Len(p.orders) : p.orders[i].id = order_id]

courier_data(p, courier_id) ==
    p.couriers[CHOOSE i \in 1..Len(p.couriers) : p.couriers[i].id = courier_id]

depot_data_of(p, depot_id) ==
    p.depots[CHOOSE i \in 1..Len(p.depots) : p.depots[i].id = depot_id]

points_load(p, points) ==
    SumSeq([j \in 1..Len(points) |-> order_data(p, points[j].order_id).items_count])

points_weight(p, points) ==
    SumSeq([j \in 1..Len(points) |-> order_data(p, points[j].order_id).weight])

\* depot, the points in their order, depot
points_distance(p, depot_id, points) ==
    path_distance(depot_data_of(p, depot_id).location,
                  [j \in 1..Len(points) |-> order_data(p, points[j].order_id)],
                  depot_data_of(p, depot_id).location)

\* GeneticOptimizer._update_route_metrics
update_route_metrics(p, route) ==
    IF route.points = <<>>
    THEN [route EXCEPT !.total_distance = 0, !.total_load = 0]
    ELSE [route EXCEPT !.total_distance = points_distance(p, route.depot_id, route.points),
                       !.total_load = points_load(p, route.points)]

\* GeneticOptimizer._initialize_data: order_indices holds the pending orders
\* that have a location
order_indices(p) ==
    LET kept == SelectSeq(p.orders, LAMBDA o : o.status = PENDING /\ o.location # <<>>)
    IN  [i \in 1..Len(kept) |-> kept[i].id]

\* GeneticOptimizer._calculate_fitness; lower is better, no routes is the worst
calculate_fitness(p, rs) ==
    IF rs = <<>> THEN Infinity
    ELSE LET assigned == UNION {{rs[i].points[j].order_id : j \in 1..Len(rs[i].points)} :
                                   i \in 1..Len(rs)}
             unassigned == SeqRange(order_indices(p)) \ assigned
             excess(r) ==
                 LET max == get(courier_data(p, r.courier_id), "max_distance", DefaultMaxDistance)
                 IN IF r.total_distance > max THEN r.total_distance - max ELSE 0
         IN SumSeq([i \in 1..Len(rs) |-> rs[i].total_distance])
               + Len(rs) * 10
               + Cardinality(unassigned) * 1000
               + SumSeq([i \in 1..Len(rs) |-> excess(rs[i])]) * 10000

\* GeneticOptimizer._assign_orders_to_depots: the nearest depot, the first if equally near
ga_best_depot_id(p, order_id) ==
    LET d(i) == distance_to(order_data(p, order_id).location, p.depots[i].location)
    IN p.depots[CHOOSE i \in 1..Len(p.depots) :
                   \A j \in 1..Len(p.depots) : d(i) <= d(j) /\ (j < i => d(j) > d(i))].id

(***************************************************************************)
(* The loop that fills a route (lines 460-498, and again 532-569, 617-654,  *)
(* 713-750): the candidates in turn, each appended if the items fit the     *)
(* courier's capacity and the lengthened route its max_distance; the loop   *)
(* stops when the capacity is reached. The weight is not looked at.         *)
(***************************************************************************)
RECURSIVE fill_route(_, _, _, _)
fill_route(p, route, load, candidates) ==
    IF candidates = <<>> THEN [route |-> route, taken |-> {}]
    ELSE LET order_id == Head(candidates)
             courier == courier_data(p, route.courier_id)
             capacity == get(courier, "max_capacity", DefaultMaxCapacity)
             order_load == order_data(p, order_id).items_count
             temp_points == Append(route.points,
                                   [order_id |-> order_id, sequence |-> Len(route.points)])
             fits == /\ load + order_load <= capacity
                     /\ points_distance(p, route.depot_id, temp_points)
                           <= get(courier, "max_distance", Infinity)
             longer == [route EXCEPT !.points = temp_points]
         IN IF ~fits THEN fill_route(p, route, load, Tail(candidates))
            ELSE IF load + order_load >= capacity
            THEN [route |-> longer, taken |-> {order_id}]
            ELSE LET rest == fill_route(p, longer, load + order_load, Tail(candidates))
                 IN [route |-> rest.route, taken |-> rest.taken \cup {order_id}]

Without(ids, taken) == SelectSeq(ids, LAMBDA o : o \notin taken)

NewRoute(courier_id, depot_id) ==
    [courier_id |-> courier_id, depot_id |-> depot_id, points |-> <<>>,
     total_distance |-> 0, total_load |-> 0]

\* _create_random_solution lines 438-512: one new route per courier of the depot
RECURSIVE first_pass(_, _, _, _, _)
first_pass(p, depot_id, depot_couriers, remaining, rs) ==
    IF depot_couriers = <<>> \/ remaining = <<>>
    THEN [routes |-> rs, remaining |-> remaining]
    ELSE LET f == fill_route(p, NewRoute(Head(depot_couriers), depot_id), 0, remaining)
         IN first_pass(p, depot_id, Tail(depot_couriers), Without(remaining, f.taken),
                       IF f.route.points # <<>>
                       THEN Append(rs, update_route_metrics(p, f.route)) ELSE rs)

\* _create_random_solution lines 520-580: the orders left over, offered to the
\* routes of the depot once more
RECURSIVE second_pass(_, _, _, _, _)
second_pass(p, depot_id, i, rs, remaining) ==
    IF i > Len(rs) THEN [routes |-> rs, remaining |-> remaining]
    ELSE IF rs[i].depot_id # depot_id THEN second_pass(p, depot_id, i + 1, rs, remaining)
    ELSE LET f == fill_route(p, rs[i], points_load(p, rs[i].points), remaining)
             rs1 == [rs EXCEPT ![i] = IF f.taken # {} THEN update_route_metrics(p, f.route)
                                      ELSE rs[i]]
             left == Without(remaining, f.taken)
         IN IF left = <<>> THEN [routes |-> rs1, remaining |-> left]
            ELSE second_pass(p, depot_id, i + 1, rs1, left)

(***************************************************************************)
(* GeneticOptimizer._assign_remaining_orders. remaining is a Python set:    *)
(* set_order is the order its iteration happens to take; courier_order is   *)
(* the shuffled courier list.                                               *)
(***************************************************************************)
\* lines 608-664: the routes in turn
RECURSIVE remaining_to_routes(_, _, _, _, _)
remaining_to_routes(p, i, rs, remaining, set_order) ==
    IF i > Len(rs) THEN [routes |-> rs, remaining |-> remaining]
    ELSE LET f == fill_route(p, rs[i], points_load(p, rs[i].points),
                             SelectSeq(set_order, LAMBDA o : o \in remaining))
             rs1 == [rs EXCEPT ![i] = update_route_metrics(p, f.route)]
             left == remaining \ f.taken
         IN IF left = {} THEN [routes |-> rs1, remaining |-> left]
            ELSE remaining_to_routes(p, i + 1, rs1, left, set_order)

\* lines 672-756: the couriers in shuffled order, a new route for one that has none
RECURSIVE remaining_to_couriers(_, _, _, _, _)
remaining_to_couriers(p, courier_order, rs, remaining, set_order) ==
    IF courier_order = <<>> \/ remaining = {} THEN rs
    ELSE LET courier_id == Head(courier_order)
             has_route == \E i \in 1..Len(rs) : rs[i].courier_id = courier_id
             k == IF has_route
                  THEN CHOOSE i \in 1..Len(rs) :
                          /\ rs[i].courier_id = courier_id
                          /\ \A j \in 1..(i - 1) : rs[j].courier_id # courier_id
                  ELSE Len(rs) + 1
             rs0 == IF has_route THEN rs
                    ELSE Append(rs, NewRoute(courier_id, courier_data(p, courier_id).depot_id))
             full == has_route /\ points_load(p, rs[k].points)
                        >= get(courier_data(p, courier_id), "max_capacity", DefaultMaxCapacity)
             f == fill_route(p, rs0[k], points_load(p, rs0[k].points),
                             SelectSeq(set_order, LAMBDA o : o \in remaining))
         IN IF full
            THEN remaining_to_couriers(p, Tail(courier_order), rs, remaining, set_order)
            ELSE remaining_to_couriers(p, Tail(courier_order),
                                       [rs0 EXCEPT ![k] = update_route_metrics(p, f.route)],
                                       remaining \ f.taken, set_order)

assign_remaining_orders(p, rs, remaining, set_order, courier_order) ==
    LET a == remaining_to_routes(p, 1, rs, remaining, set_order)
    IN IF a.remaining = {} THEN a.routes
       ELSE remaining_to_couriers(p, courier_order, a.routes, a.remaining, set_order)

(***************************************************************************)
(* GeneticOptimizer._create_random_solution. shuffled is the order ids as   *)
(* random.shuffle left them (one shuffle per depot, over disjoint orders).  *)
(***************************************************************************)
RECURSIVE depots_pass(_, _, _, _, _)
depots_pass(p, todo, shuffled, rs, all_remaining) ==
    IF todo = <<>> THEN [routes |-> rs, remaining |-> all_remaining]
    ELSE LET depot_id == Head(todo).id
             order_ids == SelectSeq(shuffled, LAMBDA o : ga_best_depot_id(p, o) = depot_id)
             of_depot == SelectSeq(p.couriers, LAMBDA c : c.depot_id = depot_id)
             depot_couriers == [i \in 1..Len(of_depot) |-> of_depot[i].id]
             a == first_pass(p, depot_id, depot_couriers, order_ids, rs)
             b == IF a.remaining # <<>>
                  THEN second_pass(p, depot_id, 1, a.routes, a.remaining) ELSE a
         IN IF order_ids = <<>> THEN depots_pass(p, Tail(todo), shuffled, rs, all_remaining)
            ELSE IF depot_couriers = <<>>
            THEN depots_pass(p, Tail(todo), shuffled, rs, all_remaining \cup SeqRange(order_ids))
            ELSE depots_pass(p, Tail(todo), shuffled, b.routes,
                             all_remaining \cup SeqRange(b.remaining))

create_random_solution(p, shuffled, set_order, courier_order) ==
    LET a == depots_pass(p, p.depots, shuffled, <<>>, {})
    IN IF a.remaining # {}
       THEN assign_remaining_orders(p, a.routes, a.remaining, set_order, courier_order)
       ELSE a.routes

\* the orders a permutation can leave a list in
Shuffles(ids) == {[k \in 1..Len(ids) |-> ids[perm[k]]] : perm \in Injections(Len(ids))}

(***************************************************************************)
(* GeneticOptimizer._mutate: the three operators, on the routes of an       *)
(* individual. Indices count from 1.                                        *)
(***************************************************************************)
Resequence(points) ==
    [j \in 1..Len(points) |-> [order_id |-> points[j].order_id, sequence |-> j - 1]]

swap_orders_copying(rs, r1, r2, p1, p2) ==
    [rs EXCEPT ![r1].points[p1].order_id = rs[r2].points[p2].order_id]

\* lines 1006-1025: the order ids of two points of different routes change places
swap_orders_between(rs, r1, r2, p1, p2) ==
    [rs EXCEPT ![r1].points[p1].order_id = rs[r2].points[p2].order_id,
               ![r2].points[p2].order_id = rs[r1].points[p1].order_id]

\* lines 1027-1044: the order ids of two points of one route change places
swap_orders_within(rs, r, p1, p2) ==
    [rs EXCEPT ![r].points[p1].order_id = rs[r].points[p2].order_id,
               ![r].points[p2].order_id = rs[r].points[p1].order_id]

move_order_any_load(p, rs, source, target, point) ==
    LET moved == rs[source].points[point]
    IN [rs EXCEPT ![source].points = Resequence(RemoveAt(rs[source].points, point)),
                  ![target].points =
                      Append(rs[target].points,
                             [order_id |-> moved.order_id,
                              sequence |-> Len(rs[target].points)])]

\* lines 1075-1104: a point moves to the end of another route of the same depot,
\* if its items fit the capacity of that route's courier
move_order(p, rs, source, target, point) ==
    LET capacity == get(courier_data(p, rs[target].courier_id),
                        "max_capacity", DefaultMaxCapacity)
        current_load == points_load(p, rs[target].points)
        moved == rs[source].points[point]
        order_load == order_data(p, moved.order_id).items_count
    IN IF current_load + order_load <= capacity
       THEN [rs EXCEPT ![source].points = Resequence(RemoveAt(rs[source].points, point)),
                       ![target].points =
                           Append(rs[target].points,
                                  [order_id |-> moved.order_id,
                                   sequence |-> Len(rs[target].points)])]
       ELSE rs

\* lines 1108-1123: the points start..end of a route in reverse order
reverse_segment(rs, r, start, end) ==
    [rs EXCEPT ![r].points =
        Resequence([j \in 1..Len(rs[r].points) |->
                       IF j >= start /\ j <= end THEN rs[r].points[start + end - j]
                       ELSE rs[r].points[j]])]

\* lines 1125-1130, and optimize_routes lines 1201-1206: the metrics of the
\* mutated individual, and the best individual so far
evolved(p, rs) ==
    LET child == [i \in 1..Len(rs) |-> update_route_metrics(p, rs[i])]
    IN [ga EXCEPT !.individual = child,
                  !.best_individual =
                      IF calculate_fitness(p, child) < calculate_fitness(p, ga.best_individual)
                      THEN child ELSE ga.best_individual,
                  !.generation = @ + 1]

Evolving == ga.pc = "evolving" /\ ga.generation < MaxGenerations

\* _create_initial_population, and the first best individual
create_initial_population ==
    /\ Idle
    /\ IF order_indices(problem) = <<>>
       THEN \* optimize_routes lines 1144-1146: _initialize_data failed
            /\ ga' = [NoGa EXCEPT !.pc = "returned"]
            /\ engine' = [algorithm |-> "genetic", solution |-> "none", routes |-> <<>>]
       ELSE /\ \E shuffled, set_order \in Shuffles(order_indices(problem)) :
                 \E courier_order \in Shuffles([i \in 1..Len(problem.couriers) |->
                                                   problem.couriers[i].id]) :
                    LET rs == create_random_solution(problem, shuffled, set_order,
                                                     courier_order)
                    IN ga' = [pc |-> "evolving", individual |-> rs,
                              best_individual |-> rs, generation |-> 0]
            /\ UNCHANGED engine
    /\ UNCHANGED <<dbVars, session, auxVars, problem>>

mutate_swap_between(r1, r2, p1, p2) ==
    /\ Evolving
    /\ r1 \in 1..Len(ga.individual) /\ r2 \in 1..Len(ga.individual) /\ r1 # r2
    /\ p1 \in 1..Len(ga.individual[r1].points)
    /\ p2 \in 1..Len(ga.individual[r2].points)
    /\ ga' = evolved(problem, swap_orders_between(ga.individual, r1, r2, p1, p2))
    /\ UNCHANGED <<dbVars, session, auxVars, problem, engine>>

mutate_swap_within(r, p1, p2) ==
    /\ Evolving
    /\ r \in 1..Len(ga.individual)
    /\ p1 \in 1..Len(ga.individual[r].points)
    /\ p2 \in 1..Len(ga.individual[r].points)
    /\ p1 # p2
    /\ ga' = evolved(problem, swap_orders_within(ga.individual, r, p1, p2))
    /\ UNCHANGED <<dbVars, session, auxVars, problem, engine>>

mutate_move_order(source, target, point) ==
    /\ Evolving
    /\ source \in 1..Len(ga.individual) /\ target \in 1..Len(ga.individual)
    /\ source # target
    /\ ga.individual[source].depot_id = ga.individual[target].depot_id
    /\ point \in 1..Len(ga.individual[source].points)
    /\ ga' = evolved(problem, move_order(problem, ga.individual, source, target, point))
    /\ UNCHANGED <<dbVars, session, auxVars, problem, engine>>

mutate_reverse_segment(r, start, end) ==
    /\ Evolving
    /\ r \in 1..Len(ga.individual)
    /\ Len(ga.individual[r].points) >= 3
    /\ start \in 1..(Len(ga.individual[r].points) - 2)
    /\ end \in (start + 1)..Len(ga.individual[r].points)
    /\ ga' = evolved(problem, reverse_segment(ga.individual, r, start, end))
    /\ UNCHANGED <<dbVars, session, auxVars, problem, engine>>

\* a generation in which the individual is not changed (lines 990-995, or an
\* operator whose conditions are not met)
mutate_nothing ==
    /\ Evolving
    /\ ga' = evolved(problem, ga.individual)
    /\ UNCHANGED <<dbVars, session, auxVars, problem, engine>>

\* optimize_routes line 1212: the loop ended (generations or timeout)
genetic_return ==
    /\ ga.pc = "evolving"
    /\ ga' = [ga EXCEPT !.pc = "returned"]
    /\ engine' = [algorithm |-> "genetic", solution |-> "none", routes |-> ga.best_individual]
    /\ UNCHANGED <<dbVars, session, auxVars, problem>>

Indices == 1..3

\* one engine run on one problem
NextEngine ==
    \/ nearest_neighbor
    \/ or_tools
    \/ create_initial_population
    \/ \E r1, r2, p1, p2 \in Indices : mutate_swap_between(r1, r2, p1, p2)
    \/ \E r, p1, p2 \in Indices : mutate_swap_within(r, p1, p2)
    \/ \E source, target, point \in Indices : mutate_move_order(source, target, point)
    \/ \E r, start, end \in Indices : mutate_reverse_segment(r, start, end)
    \/ mutate_nothing
    \/ genetic_return

SpecEngine == InitEngine /\ [][NextEngine]_vars

(***************************************************************************)
(* Properties of the engines (specification SpecEngine)                    *)
(***************************************************************************)
NearestNeighborOf(p) ==
    IF Len(p.depots) > 1
    THEN optimize_routes_multi_depot(p.depots, p.orders, p.couriers)
    ELSE optimize_with_nearest_neighbor(p.depots[1], p.orders, p.couriers)

\* C2: in every route an engine returns (nearest neighbour, CP, or the
\* genetic algorithm after any mutations) the items of the route's orders
\* sum to at most the max_capacity of the route's courier.
C2_ItemsWithinCapacity ==
    \A i \in 1..Len(engine.routes) :
        points_load(problem, engine.routes[i].points)
            <= max_capacity(engine.routes[i].courier_id)

\* C3: in every route an engine returns the weights of the route's orders
\* sum to at most the max_weight of the route's courier.
C3_WeightWithinMax ==
    \A i \in 1..Len(engine.routes) :
        points_weight(problem, engine.routes[i].points)
            <= max_weight(engine.routes[i].courier_id)

\* C10: when the solver finds no solution the CP engine returns exactly the
\* routes of the nearest-neighbour engine for the same inputs: the same
\* depot, orders and couriers with one depot, nearest neighbour depot by
\* depot over the same depots, orders and couriers with several.
C10_NoSolutionGivesNearestNeighbor ==
    (engine.algorithm = "or_tools" /\ engine.solution = "not found") =>
        engine.routes = NearestNeighborOf(problem)

\* the solver found nothing for two depots and the engine returned routes
\* of both
C10_Witness ==
    /\ engine.algorithm = "or_tools"
    /\ engine.solution = "not found"
    /\ Len(problem.depots) > 1
    /\ \E i, j \in 1..Len(engine.routes) :
          engine.routes[i].depot_id # engine.routes[j].depot_id

(***************************************************************************)
(* RouteOptimizer._compute_distance_matrix (specification SpecMatrix).      *)
(* A matrix is a function over <<i, j>>, 1-based. The location <<0>> stands *)
(* for latitude 0, longitude 0, which _get_osrm_matrix_batch takes for an   *)
(* invalid location. A payload of the table service is [kind, rows, cols].  *)
(***************************************************************************)
\* locations per remote request: 100 in the code, scaled down
batch_size == 2
\* longest location list a matrix is computed for
MaxLocations == 4
\* matrix = matrix / 1000.0
MatrixLocations == {<<0>>, <<1>>, <<3>>}
LocationLists == UNION {[1..n -> MatrixLocations] : n \in 1..MaxLocations}

\* what a remote request can come back with
PayloadKinds ==
    {"ok", "http_error", "timeout", "not_ok", "malformed", "empty", "short", "long"}
FailureKinds == PayloadKinds \ {"ok"}

Cells(n) == (1..n) \X (1..n)

\* np.zeros((size, size))
zeros(n) == [c \in Cells(n) |-> 0]

\* the straight-line matrix: distance_to off the diagonal, 0 on it
direct_matrix(locations) ==
    [c \in Cells(Len(locations)) |->
        IF c[1] # c[2] THEN distance_to(locations[c[1]], locations[c[2]]) ELSE 0]

\* the straight-line fill of the except branch: the diagonal is left as it is
direct_fill(matrix, locations) ==
    [c \in Cells(Len(locations)) |->
        IF c[1] # c[2] THEN distance_to(locations[c[1]], locations[c[2]])
        ELSE matrix[c]]

\* data["distances"][i][j] of a table answer, in metres: roads are longer
\* than the straight line
road_metres(a, b) == IF a = b THEN 0 ELSE (distance_to(a, b) + 1) * MetresPerKm

\* the shape of data["distances"] for a request of rows x cols cells
payload_shape(kind, rows, cols) ==
    CASE kind = "empty" -> <<0, 0>>
      [] kind = "short" -> <<rows - 1, cols>>
      [] kind = "long"  -> <<rows + 1, cols + 1>>
      [] OTHER          -> <<rows, cols>>

\* requests.get, the status code, response.json() or data["code"] raise
request_raises(kind) == kind \in {"http_error", "timeout", "not_ok", "malformed"}

valid_locations(locations) == SelectSeq(locations, LAMBDA loc : loc # <<0>>)

\* _get_osrm_matrix_batch: [raised, requested, matrix]
get_osrm_matrix_batch(locations, kind) ==
    LET size == Len(locations)
        valid == valid_locations(locations)
        n == Len(valid)
        shape == payload_shape(kind, n, n)
        matrix == [c \in Cells(n) |-> road_metres(valid[c[1]], valid[c[2]]) \div MetresPerKm]
    IN  IF n # size /\ n < 2
        THEN [raised |-> TRUE, requested |-> FALSE, matrix |-> zeros(size)]
        ELSE IF request_raises(kind) \/ shape[1] = 0 \/ shape[1] # n \/ shape[2] # n
        THEN [raised |-> TRUE, requested |-> TRUE, matrix |-> zeros(size)]
        ELSE [raised |-> FALSE, requested |-> TRUE,
              matrix |-> IF n # size
                         THEN [c \in Cells(size) |->
                                  IF c[1] <= n /\ c[2] <= n THEN matrix[c] ELSE 0]
                         ELSE matrix]

\* _get_osrm_matrix_for_locations: [raised, shape, matrix]; no check of the shape
get_osrm_matrix_for_locations(source_locations, destination_locations, kind) ==
    LET rows == Len(source_locations)
        cols == Len(destination_locations)
    IN  [raised |-> request_raises(kind),
         shape |-> payload_shape(kind, rows, cols),
         matrix |-> [c \in (1..rows) \X (1..cols) |->
                        road_metres(source_locations[c[1]], destination_locations[c[2]])
                            \div MetresPerKm]]

Min2(a, b) == IF a <= b THEN a ELSE b

\* tiles per side of the matrix: range(0, size, batch_size)
tiles_per_side(size) == (size + batch_size - 1) \div batch_size

\* _compute_distance_matrix is called with a location list
InitMatrix ==
    /\ depots = Depots
    /\ InitDb
    /\ problem = NoProblem
    /\ engine = NoEngine
    /\ ga = NoGa
    /\ \E locations \in LocationLists, use_real_roads \in BOOLEAN :
          osrm = [pc |-> "called", locations |-> locations,
                  use_real_roads |-> use_real_roads,
                  matrix |-> zeros(Len(locations)), tile |-> 0, requests |-> <<>>]
    /\ buckets = NoBuckets
    /\ nn = NoNn

osrm_returned(matrix, requests) ==
    [osrm EXCEPT !.pc = "returned", !.matrix = matrix, !.requests = requests]

\* use_real_roads is off: the straight-line matrix
compute_direct ==
    /\ osrm.pc = "called"
    /\ ~osrm.use_real_roads
    /\ osrm' = osrm_returned(direct_matrix(osrm.locations), osrm.requests)
    /\ UNCHANGED <<dbVars, session, engVars, buckets, nn>>

\* _compute_osrm_distance_matrix with at most batch_size locations: one request
compute_osrm_batch(kind) ==
    /\ osrm.pc = "called"
    /\ osrm.use_real_roads
    /\ Len(osrm.locations) <= batch_size
    /\ LET res == get_osrm_matrix_batch(osrm.locations, kind)
           requests == IF res.requested THEN <<kind>> ELSE <<>>
       IN  osrm' = IF res.raised
                   THEN osrm_returned(direct_fill(osrm.matrix, osrm.locations), requests)
                   ELSE osrm_returned(res.matrix, requests)
    /\ UNCHANGED <<dbVars, session, engVars, buckets, nn>>

\* _compute_osrm_distance_matrix with more locations: the request of the next
\* tile; the call returns after the last tile or in the except branch
compute_osrm_tile(kind) ==
    /\ osrm.pc \in {"called", "tiles"}
    /\ osrm.use_real_roads
    /\ Len(osrm.locations) > batch_size
    /\ LET size == Len(osrm.locations)
           T == tiles_per_side(size)
           i == (osrm.tile \div T) * batch_size
           j == (osrm.tile % T) * batch_size
           batch_end == Min2(i + batch_size, size)
           sub_batch_end == Min2(j + batch_size, size)
           res == get_osrm_matrix_for_locations(
                      SubSeq(osrm.locations, i + 1, batch_end),
                      SubSeq(osrm.locations, j + 1, sub_batch_end), kind)
           index_error == res.shape[1] < batch_end - i \/ res.shape[2] < sub_batch_end - j
           copied == [c \in Cells(size) |->
                        IF c[1] \in (i + 1)..batch_end /\ c[2] \in (j + 1)..sub_batch_end
                        THEN res.matrix[<<c[1] - i, c[2] - j>>]
                        ELSE osrm.matrix[c]]
           requests == Append(osrm.requests, kind)
       IN  osrm' = IF res.raised \/ index_error
                   THEN osrm_returned(direct_fill(osrm.matrix, osrm.locations), requests)
                   ELSE IF osrm.tile + 1 = T * T
                   THEN osrm_returned(copied, requests)
                   ELSE [osrm EXCEPT !.pc = "tiles", !.matrix = copied,
                                     !.tile = osrm.tile + 1, !.requests = requests]
    /\ UNCHANGED <<dbVars, session, engVars, buckets, nn>>

NextMatrix ==
    \/ compute_direct
    \/ \E kind \in PayloadKinds : compute_osrm_batch(kind)
    \/ \E kind \in PayloadKinds : compute_osrm_tile(kind)

SpecMatrix == InitMatrix /\ [][NextMatrix]_vars

(***************************************************************************)
(* Properties of the distance matrix (specification SpecMatrix)            *)
(***************************************************************************)
\* C11: with the road backend selected, when a remote request of one matrix
\* computation failed (HTTP error, timeout, non-Ok code, malformed payload
\* or a payload of the wrong shape), the matrix returned equals the
\* straight-line matrix in every cell, also when earlier tiles succeeded.
C11_FailureGivesDirectMatrix ==
    (/\ osrm.pc = "returned"
     /\ osrm.use_real_roads
     /\ \E k \in 1..Len(osrm.requests) : osrm.requests[k] \in FailureKinds)
        => osrm.matrix = direct_matrix(osrm.locations)

(***************************************************************************)
(* The depot partitioners (specification SpecPartition): both               *)
(* _assign_orders_to_depots, run on one to three orders, some without a     *)
(* usable location, and on one or two depots in either order.               *)
(***************************************************************************)
PartitionOrders ==
    LET data(id) == {[id |-> id, status |-> PENDING, location |-> l,
                      items_count |-> 1, weight |-> 20] :
                        l \in {<<>>, <<1>>, <<2>>, <<3>>}}
    IN  UNION {{<<a>> : a \in data("o1")},
               {<<a, b>> : a \in data("o1"), b \in data("o2")},
               {<<a, b, c>> : a \in data("o1"), b \in data("o2"), c \in data("o3")}}

PartitionDepots ==
    {<<depot_model_dump("d1")>>,
     <<depot_model_dump("d1"), depot_model_dump("d2")>>,
     <<depot_model_dump("d2"), depot_model_dump("d1")>>}

InitPartition ==
    /\ depots = Depots
    /\ InitDb
    /\ \E ds \in PartitionDepots, os \in PartitionOrders :
          problem = [depots |-> ds, orders |-> os, couriers |-> couriers_of(ds)]
    /\ engine = NoEngine
    /\ ga = NoGa
    /\ InitAux

\* GeneticOptimizer._assign_orders_to_depots: the bucket of one depot
ga_assign_orders_to_depots(p, depot_id) ==
    SelectSeq(order_indices(p), LAMBDA o : ga_best_depot_id(p, o) = depot_id)

depot_ids(p) == {p.depots[i].id : i \in 1..Len(p.depots)}

\* RouteOptimizer._assign_orders_to_depots
partition_route_optimizer ==
    /\ buckets.by = "none"
    /\ buckets' =
          [by |-> "route_optimizer",
           orders_by_depot |->
              [d \in depot_ids(problem) |->
                  LET os == assign_orders_to_depots(problem.orders, problem.depots, d)
                  IN  [i \in 1..Len(os) |-> os[i].id]]]
    /\ UNCHANGED <<dbVars, session, engVars, osrm, nn>>

\* GeneticOptimizer._assign_orders_to_depots
partition_genetic ==
    /\ buckets.by = "none"
    /\ buckets' =
          [by |-> "genetic",
           orders_by_depot |->
              [d \in depot_ids(problem) |-> ga_assign_orders_to_depots(problem, d)]]
    /\ UNCHANGED <<dbVars, session, engVars, osrm, nn>>

NextPartition == partition_route_optimizer \/ partition_genetic

SpecPartition == InitPartition /\ [][NextPartition]_vars

\* how often the order id occurs in the bucket of the depot
Occurrences(id, d) ==
    Cardinality({i \in 1..Len(buckets.orders_by_depot[d]) :
                    buckets.orders_by_depot[d][i] = id})

\* C12: a partitioner puts every input order into exactly one bucket: that of
\* the depot at the least straight-line distance, the earliest of the input
\* among equally near depots, the first depot for an order without a usable
\* location.
C12_EveryOrderInNearestBucket ==
    buckets.by # "none" =>
        \A k \in 1..Len(problem.orders) :
            LET o == problem.orders[k]
                n == Len(problem.depots)
                d(i) == distance_to(o.location, problem.depots[i].location)
                nearest == IF o.location = <<>> THEN 1
                           ELSE CHOOSE i \in 1..n :
                                   \A j \in 1..n : d(i) <= d(j) /\ (j < i => d(i) < d(j))
            IN  \A i \in 1..n :
                    Occurrences(o.id, problem.depots[i].id) = IF i = nearest THEN 1 ELSE 0

\* C13: every route of the nearest-neighbour engine has a total distance
\* (depot, its points in order, back to the depot) of at most the
\* max_distance of its courier.
C13_NearestNeighborWithinDistance ==
    engine.algorithm = "nearest_neighbor" =>
        \A i \in 1..Len(engine.routes) :
            LET r == engine.routes[i] IN
            /\ r.total_distance <= max_distance(r.courier_id)
            /\ points_distance(problem, r.depot_id, r.points) <= max_distance(r.courier_id)

\* courier c1, probed first and empty, took no order because each was too
\* far for its max_distance, and another courier got a route
C13_Witness ==
    /\ engine.algorithm = "nearest_neighbor"
    /\ Len(problem.depots) = 1
    /\ engine.routes # <<>>
    /\ \A i \in 1..Len(engine.routes) : engine.routes[i].courier_id # "c1"

(***************************************************************************)
(* One courier at one depot with two orders (specification SpecScenario):   *)
(* the engines on the problems of one family. Distances are in units of     *)
(* 100 m here: an order 1.1 km from the depot is at 11 or -11.              *)
(***************************************************************************)
ScenarioCourier(limit) ==
    [id |-> "c1", depot_id |-> "d1", max_capacity |-> 10, max_weight |-> 100,
     max_distance |-> limit]

ScenarioOrder(id, x) ==
    [id |-> id, status |-> PENDING, location |-> <<x>>, items_count |-> 1, weight |-> 1]

ScenarioProblem(x1, x2, limit) ==
    [depots |-> <<depot_model_dump("d1")>>,
     orders |-> <<ScenarioOrder("o1", x1), ScenarioOrder("o2", x2)>>,
     couriers |-> <<ScenarioCourier(limit)>>]

\* depot at the origin, limit 1 km, both orders 1.1 km out in different directions
Scenario1km == ScenarioProblem(11, -11, 10)

ScenarioProblems ==
    {ScenarioProblem(x1, x2, limit) :
        x1 \in {-11, 4, 11, 30}, x2 \in {-11, 4, 11, 30}, limit \in {10, 22, 500}}

InitScenario ==
    /\ depots = Depots
    /\ InitDb
    /\ problem \in ScenarioProblems
    /\ engine = NoEngine
    /\ ga = NoGa
    /\ InitAux

NextScenario ==
    \/ nearest_neighbor
    \/ create_initial_population
    \/ \E r, p1, p2 \in Indices : mutate_swap_within(r, p1, p2)
    \/ mutate_nothing
    \/ genetic_return

SpecScenario == InitScenario /\ [][NextScenario]_vars

\* C14: on the problem of one depot at the origin, one courier (10 items,
\* 100 kg, 1 km) and two one-item orders 1.1 km from the depot, the
\* nearest-neighbour engine returns exactly one route with exactly one
\* order, and so does the genetic engine.
C14_OneRouteOneOrder ==
    (problem = Scenario1km /\ engine.algorithm \in {"nearest_neighbor", "genetic"}) =>
        /\ Len(engine.routes) = 1
        /\ Len(engine.routes[1].points) = 1

(***************************************************************************)
(* The depot of a route (specification SpecEngine).                         *)
(***************************************************************************)
\* C15: every route the nearest-neighbour engine or the constraint solver
\* returns, for one depot, depot by depot, or for all depots jointly, carries
\* as depot_id the depot its courier belongs to.
C15_RouteDepotIsCourierDepot ==
    engine.algorithm \in {"nearest_neighbor", "or_tools"} =>
        \A i \in 1..Len(engine.routes) :
            engine.routes[i].depot_id = courier_data(problem, engine.routes[i].courier_id).depot_id

\* the solver answered for two depots and both have a route
C15_Witness ==
    /\ engine.algorithm = "or_tools"
    /\ engine.solution = "found"
    /\ Len(problem.depots) = 2
    /\ {engine.routes[i].depot_id : i \in 1..Len(engine.routes)} = {"d1", "d2"}

(***************************************************************************)
(* The engines on what the handlers load (specification SpecPending): the   *)
(* order table holds PENDING and ASSIGNED orders, and the problem is built  *)
(* from OrderService.get_pending_orders.                                    *)
(***************************************************************************)
\* routes/route.py lines 213-219: orders_data, in the order of the query
orders_data(ids) ==
    LET listed == SelectSeq(<<"o1", "o2">>, LAMBDA o : o \in ids)
        dumps == UNION {OrderData(o) : o \in ids}
    IN {[i \in 1..Len(listed) |-> [s[i] EXCEPT !.status = orders[listed[i]].status]] :
           s \in {t \in [1..Len(listed) -> dumps] : \A i \in 1..Len(listed) : t[i].id = listed[i]}}

InitPending ==
    /\ depots = Depots
    /\ courier_depot_id = [c \in Couriers |-> courier_depot(c)]
    /\ orders \in [Orders -> {[status |-> PENDING, courier_id |-> NoCourier],
                              [status |-> ASSIGNED, courier_id |-> "c3"]}]
    /\ routes = {}
    /\ route_points = {}
    /\ session = IdleSession
    /\ get_pending_orders # {}
    /\ \E ds \in DepotLists, os \in orders_data(get_pending_orders) :
          problem = [depots |-> ds, orders |-> os, couriers |-> couriers_of(ds)]
    /\ engine = NoEngine
    /\ ga = NoGa
    /\ InitAux

NextPending ==
    \/ nearest_neighbor
    \/ create_initial_population
    \/ \E r1, r2, p1, p2 \in Indices : mutate_swap_between(r1, r2, p1, p2)
    \/ \E r, p1, p2 \in Indices : mutate_swap_within(r, p1, p2)
    \/ \E source, target, point \in Indices : mutate_move_order(source, target, point)
    \/ mutate_nothing
    \/ genetic_return

SpecPending == InitPending /\ [][NextPending]_vars

SummaryRoutes == RoutesOfLength({1, 2})

NextSummary ==
    \/ \E d \in Depots \cup {NoDepot} : optimize_begin(d)
    \/ \E rd \in SummaryRoutes : optimize_route(rd)
    \/ optimize_end
    \/ reset_all_routes

SpecSummary == Init /\ [][NextSummary]_vars

\* C17: the summary of a finished session gives as total distance the sum of
\* total_distance over the routes of the response and as assigned orders the
\* sum of their point counts; its total_orders is the number of pending
\* orders the request found; and a route of the engine that is dropped
\* (courier already used, no valid point, or creation failed) leaves the
\* response as it was, while an emitted one is appended to it.
C17_SummaryOfSurvivingRoutes ==
    /\ [](session.pc = "done" =>
             /\ session.total_distance
                   = SumSeq([i \in 1..Len(response) |-> response[i].total_distance])
             /\ session.assigned_orders = PointCount(response))
    /\ [][/\ (~Serving /\ session'.pc = "arbiter") =>
                session'.total_orders = Cardinality(get_pending_orders)
          /\ (Serving /\ session'.n = session.n + 1) =>
                /\ session'.total_orders = session.total_orders
                /\ IF session'.outcome = "emitted"
                   THEN /\ Len(session'.routes_response) = Len(response) + 1
                        /\ SubSeq(session'.routes_response, 1, Len(response)) = response
                        /\ session'.routes_response[Len(response) + 1].points # <<>>
                        /\ session'.routes_response[Len(response) + 1].courier_id
                              \notin session.used_courier_ids
                   ELSE session'.routes_response = response
          /\ (Serving /\ session'.pc = "done") =>
                /\ session'.total_orders = session.total_orders
                /\ session'.routes_response = response]_vars

\* a session finished with one surviving route of two points after a route
\* was dropped, and its summary counts two orders
C17_Witness ==
    /\ session.pc = "done"
    /\ session.n = 2
    /\ Len(response) = 1
    /\ session.assigned_orders = 2
    /\ session.total_distance = 2

(***************************************************************************)
(* The length of a route (specification SpecDistance): the engines on one   *)
(* depot with orders whose distances are no whole numbers of metres. All    *)
(* distances of these problems are in units of 0.1 m.                       *)
(***************************************************************************)
SubMetreUnits == 10 * MetresPerKm

DistanceCourier(id, items) ==
    [id |-> id, depot_id |-> "d1", max_capacity |-> items, max_weight |-> 100,
     max_distance |-> DefaultMaxDistance * SubMetreUnits]

\* orders 1.0005 km, 2.0003 km, 3 km and 0.9999 km from the depot
DistanceProblems ==
    {[depots |-> <<depot_model_dump("d1")>>,
      orders |-> <<ScenarioOrder("o1", x1), ScenarioOrder("o2", x2)>>,
      couriers |-> <<DistanceCourier("c1", 1), DistanceCourier("c2", 10)>>] :
        x1 \in {10005, -20003, 30000, -9999}, x2 \in {10005, -20003, 30000, -9999}}

InitDistance ==
    /\ depots = Depots
    /\ InitDb
    /\ problem \in DistanceProblems
    /\ engine = NoEngine
    /\ ga = NoGa
    /\ InitAux

\* _optimize_with_or_tools on a problem in units of 0.1 m
or_tools_sub_metre ==
    /\ Idle
    /\ LET starts == single_starts(problem.depots[1], problem.couriers)
       IN \E solution \in {NoSolution} \cup
                           Solutions(located_orders(problem.orders), problem.couriers, starts,
                                     OrToolsMaxDistance * SubMetreUnits) :
             engine' = [algorithm |-> "or_tools",
                        solution |-> IF solution = NoSolution THEN "not found" ELSE "found",
                        routes |->
                            IF solution = NoSolution
                            THEN or_tools_fallback(problem.depots[1], problem.orders,
                                                   problem.couriers)
                            ELSE solution_routes_in(
                                     SubMetreUnits, solution, problem.couriers, starts,
                                     [v \in 1..Len(problem.couriers) |-> problem.depots[1].id])]
    /\ UNCHANGED <<dbVars, session, auxVars, problem, ga>>

NextDistance ==
    \/ nearest_neighbor
    \/ or_tools_sub_metre
    \/ create_initial_population
    \/ \E r1, r2, p1, p2 \in Indices : mutate_swap_between(r1, r2, p1, p2)
    \/ \E r, p1, p2 \in Indices : mutate_swap_within(r, p1, p2)
    \/ \E source, target, point \in Indices : mutate_move_order(source, target, point)
    \/ mutate_nothing
    \/ genetic_return

SpecDistance == InitDistance /\ [][NextDistance]_vars

\* C18: the total_distance of every route an engine returns (nearest
\* neighbour, genetic, constraint solver) is the distance from the depot to
\* the first point, plus the distances between consecutive points, plus the
\* distance from the last point back to the depot. One unit is 0.1 m, so a
\* tolerance of 10^-6 km admits no difference of a whole unit.
C18_TotalDistanceIsPathLength ==
    engine.algorithm # "none" =>
        \A i \in 1..Len(engine.routes) :
            LET r == engine.routes[i]
                at(j) == order_data(problem, r.points[j].order_id).location
                depot == depot_data_of(problem, r.depot_id).location
                n == Len(r.points)
            IN n > 0 =>
                  r.total_distance
                     = distance_to(depot, at(1))
                       + SumSeq([j \in 1..(n - 1) |-> distance_to(at(j), at(j + 1))])
                       + distance_to(at(n), depot)

(***************************************************************************)
(* The loop of the nearest-neighbour engine, order by order (specification  *)
(* SpecRoundRobin), on the problems of one depot.                           *)
(***************************************************************************)
InitRoundRobin ==
    /\ depots = Depots
    /\ InitDb
    /\ problem \in {p \in Problems : Len(p.depots) = 1}
    /\ engine = NoEngine
    /\ ga = NoGa
    /\ InitAux

\* lines 114-138: the located orders sorted, empty routes, the cursor at the
\* first courier
nn_sort_orders ==
    /\ Idle
    /\ nn.pc = "none"
    /\ nn' = [pc |-> "distributing",
              sorted_orders |-> sorted_orders(problem.orders, problem.depots[1].location),
              courier_routes |-> empty_courier_routes(problem.couriers),
              courier_index |-> 1, assigned |-> FALSE, attempts |-> 0]
    /\ UNCHANGED <<dbVars, session, engVars, osrm, buckets>>

\* lines 140-186: one pass of the loop over sorted_orders
nn_assign_order ==
    /\ nn.pc = "distributing"
    /\ nn.sorted_orders # <<>>
    /\ LET r == try_couriers(Head(nn.sorted_orders), problem.couriers, nn.courier_routes,
                             nn.courier_index, 0, problem.depots[1].location)
       IN nn' = [nn EXCEPT !.sorted_orders = Tail(@),
                           !.courier_routes = r.courier_routes,
                           !.courier_index = r.courier_index,
                           !.assigned = r.assigned,
                           !.attempts = r.attempts]
    /\ UNCHANGED <<dbVars, session, engVars, osrm, buckets>>

\* lines 188-229: the routes are built and returned
nn_return ==
    /\ nn.pc = "distributing"
    /\ nn.sorted_orders = <<>>
    /\ nn' = [nn EXCEPT !.pc = "returned"]
    /\ engine' = [algorithm |-> "nearest_neighbor", solution |-> "none",
                  routes |-> routes_of_couriers(problem.depots[1], problem.couriers,
                                                nn.courier_routes)]
    /\ UNCHANGED <<dbVars, session, problem, ga, osrm, buckets>>

NextRoundRobin == nn_sort_orders \/ nn_assign_order \/ nn_return

SpecRoundRobin == InitRoundRobin /\ [][NextRoundRobin]_vars

\* C19: the nearest-neighbour engine takes the orders in ascending distance
\* from the depot; for each it probes the couriers one after the other from
\* the cursor on, wrapping around, each courier at most once; the order is
\* appended to the first probed courier whose items limit, weight limit and
\* distance limit of the tentative route all hold, the cursor then standing
\* behind that courier; and it is dropped, all routes unchanged, only if no
\* courier satisfies the three limits.
C19_RoundRobinFirstFit ==
    [][(nn.pc = "distributing" /\ nn.sorted_orders # <<>> /\ nn'.pc = "distributing") =>
          LET order == Head(nn.sorted_orders)
              depot == problem.depots[1].location
              n == Len(problem.couriers)
              probed(k) == ((nn.courier_index - 1 + k) % n) + 1
              Fits(v) ==
                  LET courier == problem.couriers[v]
                      taken == nn.courier_routes[v].orders
                  IN /\ route_load(taken) + order.items_count
                           <= get(courier, "max_capacity", DefaultMaxCapacity)
                     /\ route_weight(taken) + order.weight
                           <= get(courier, "max_weight", DefaultMaxWeight)
                     /\ optimize_route_order(Append(taken, order), depot).total_distance
                           <= get(courier, "max_distance", DefaultMaxDistance)
              hits == {k \in 0..(n - 1) : Fits(probed(k))}
          IN /\ \A i \in 1..Len(nn.sorted_orders) :
                   distance_to(depot, order.location)
                      <= distance_to(depot, nn.sorted_orders[i].location)
             /\ nn'.sorted_orders = Tail(nn.sorted_orders)
             /\ IF hits = {}
                THEN /\ nn'.courier_routes = nn.courier_routes
                     /\ ~nn'.assigned
                ELSE LET v == probed(SetMin(hits))
                     IN /\ nn'.courier_routes[v].orders
                              = Append(nn.courier_routes[v].orders, order)
                        /\ \A w \in 1..n : w # v => nn'.courier_routes[w] = nn.courier_routes[w]
                        /\ nn'.courier_index = (v % n) + 1
                        /\ nn'.attempts = SetMin(hits) + 1]_vars

\* the first probed courier refused an order and the second one took it,
\* after another order had been dropped
C19_Witness ==
    /\ nn.pc = "distributing"
    /\ nn.assigned
    /\ nn.attempts = 2
    /\ Len(nn.sorted_orders) + SumSeq([v \in 1..Len(nn.courier_routes) |->
                                          Len(nn.courier_routes[v].orders)])
          < Len(problem.orders)

(***************************************************************************)
(* GeneticOptimizer._crossover (specification SpecCrossover): two parents,  *)
(* each a random solution of the problem, exchange one route.               *)
(***************************************************************************)
CrossoverProblems ==
    {p \in Problems :
        /\ \A i \in 1..Len(p.orders) : p.orders[i].weight = 20
        /\ p.orders[1].items_count = 1 /\ p.orders[2].items_count = 1}

InitCrossover ==
    /\ depots = Depots
    /\ InitDb
    /\ problem \in CrossoverProblems
    /\ engine = NoEngine
    /\ ga = NoGa
    /\ InitAux

\* _fix_duplicate_orders lines 953-972: a point is skipped when its order was
\* seen in an earlier route or earlier in its route
without_duplicate_orders(rs) ==
    LET seen_before(i, j) ==
            \/ \E k \in 1..(i - 1) : \E l \in 1..Len(rs[k].points) :
                  rs[k].points[l].order_id = rs[i].points[j].order_id
            \/ \E l \in 1..(j - 1) : rs[i].points[l].order_id = rs[i].points[j].order_id
        new_points(i) ==
            LET idx == SelectSeq([j \in 1..Len(rs[i].points) |-> j],
                                 LAMBDA j : ~seen_before(i, j))
            IN Resequence([k \in 1..Len(idx) |-> rs[i].points[idx[k]]])
    IN [routes |-> [i \in 1..Len(rs) |-> [rs[i] EXCEPT !.points = new_points(i)]],
        removed_orders |-> {rs[i].points[j].order_id :
                               <<i, j>> \in {<<i, j>> \in (1..Len(rs)) \X (1..MaxPoints) :
                                                j <= Len(rs[i].points) /\ seen_before(i, j)}}]

\* _fix_duplicate_orders lines 974-977: the removed orders are given to
\* _assign_remaining_orders
fix_duplicate_orders(p, rs, set_order, courier_order) ==
    LET fixed == without_duplicate_orders(rs)
    IN IF fixed.removed_orders = {} THEN fixed.routes
       ELSE assign_remaining_orders(p, fixed.routes, fixed.removed_orders,
                                    set_order, courier_order)

\* _crossover lines 914-934: the children after the exchange of one route, the
\* repair and the update of the metrics
crossover(p, parent1, parent2, route_idx1, route_idx2, set_order, courier_order) ==
    LET child1 == [parent1 EXCEPT ![route_idx1] = parent2[route_idx2]]
        child2 == [parent2 EXCEPT ![route_idx2] = parent1[route_idx1]]
        repaired(child) ==
            LET rs == fix_duplicate_orders(p, child, set_order, courier_order)
            IN [i \in 1..Len(rs) |-> update_route_metrics(p, rs[i])]
    IN <<repaired(child1), repaired(child2)>>

\* a random solution becomes the first parent, then another the second
select_parent ==
    /\ engine.algorithm = "none"
    /\ ga.pc \in {"none", "one parent"}
    /\ order_indices(problem) # <<>>
    /\ \E shuffled, set_order \in Shuffles(order_indices(problem)) :
          \E courier_order \in Shuffles([i \in 1..Len(problem.couriers) |-> problem.couriers[i].id]) :
             LET rs == create_random_solution(problem, shuffled, set_order, courier_order)
             IN ga' = IF ga.pc = "none"
                      THEN [pc |-> "one parent", parents |-> <<rs>>, children |-> <<>>]
                      ELSE [pc |-> "two parents", parents |-> Append(ga.parents, rs),
                            children |-> <<>>]
    /\ UNCHANGED <<dbVars, session, auxVars, problem, engine>>

crossover_parents ==
    /\ ga.pc = "two parents"
    /\ ga.parents[1] # <<>> /\ ga.parents[2] # <<>>
    /\ \E route_idx1 \in 1..Len(ga.parents[1]), route_idx2 \in 1..Len(ga.parents[2]) :
          \E set_order \in Shuffles(order_indices(problem)) :
             \E courier_order \in Shuffles([i \in 1..Len(problem.couriers) |-> problem.couriers[i].id]) :
                ga' = [ga EXCEPT !.pc = "crossed",
                                 !.children = crossover(problem, ga.parents[1], ga.parents[2],
                                                        route_idx1, route_idx2,
                                                        set_order, courier_order)]
    /\ UNCHANGED <<dbVars, session, auxVars, problem, engine>>

NextCrossover == select_parent \/ crossover_parents

SpecCrossover == InitCrossover /\ [][NextCrossover]_vars

\* C20: after a crossover that exchanged one route between the two children
\* and repaired them, no order id occurs more than once across the routes
\* of a child.
C20_NoDuplicateAfterCrossover ==
    ga.pc = "crossed" =>
        \A c \in 1..2 :
            \A i, k \in 1..Len(ga.children[c]) :
                \A j \in 1..Len(ga.children[c][i].points) :
                    \A l \in 1..Len(ga.children[c][k].points) :
                        ga.children[c][i].points[j].order_id = ga.children[c][k].points[l].order_id
                            => (i = k /\ j = l)

(***************************************************************************)
(* GeneticOptimizer.optimize_routes (specification SpecGeneration): the     *)
(* generational loop over a population of two individuals. ga holds the     *)
(* population, the child under construction, the best individual so far,    *)
(* whether the wall-clock timeout has passed, and least_fitness, the least  *)
(* fitness of any individual that was ever a member of a population.        *)
(***************************************************************************)
GenerationOrder(id, location, items) ==
    [id |-> id, status |-> PENDING, location |-> location, items_count |-> items,
     weight |-> 20]

\* three orders at three places, in two arrangements, or without a location
GenerationProblems ==
    {[depots |-> ds,
      orders |-> <<GenerationOrder("o1", l[1], 1), GenerationOrder("o2", l[2], 1),
                   GenerationOrder("o3", l[3], n)>>,
      couriers |-> couriers_of(ds)] :
        ds \in DepotLists,
        l \in {<< <<1>>, <<2>>, <<3>> >>, << <<3>>, <<1>>, <<2>> >>, << <<>>, <<>>, <<>> >>},
        n \in OrderItems}

InitGeneration ==
    /\ depots = Depots
    /\ InitDb
    /\ problem \in GenerationProblems
    /\ engine = NoEngine
    /\ ga = NoGa
    /\ InitAux

\* min(population, key=lambda ind: ind.fitness), lines 1153 and 1202: the first
\* individual of least fitness
min_fitness(p, population) ==
    LET least == SetMin({calculate_fitness(p, population[i]) : i \in 1..Len(population)})
        first == SetMin({i \in 1..Len(population) :
                            calculate_fitness(p, population[i]) = least})
    IN population[first]

keep_best(p, best_individual, population) == best_individual

\* lines 1201-1204: the best individual is replaced only by a strictly fitter one
update_best(p, best_individual, population) ==
    LET current_best == min_fitness(p, population)
    IN IF calculate_fitness(p, current_best) < calculate_fitness(p, best_individual)
       THEN current_best
       ELSE best_individual

\* _select_parents lines 874-885 for a population of two: every tournament
\* holds both individuals in a random order, and its winner is the first of
\* least fitness
tournament_winners(p, population) ==
    LET least == calculate_fitness(p, min_fitness(p, population))
    IN {population[i] : i \in {i \in 1..Len(population) :
                                  calculate_fitness(p, population[i]) = least}}

\* _crossover lines 903-942: the first child of two parents
first_children(p, parent1, parent2) ==
    IF parent1 = <<>> \/ parent2 = <<>>
    THEN {parent1}
    ELSE {parent1} \cup
         {crossover(p, parent1, parent2, q[1], q[2], set_order, courier_order)[1] :
             q \in (1..Len(parent1)) \X (1..Len(parent2)),
             set_order \in Shuffles(order_indices(p)),
             courier_order \in Shuffles([i \in 1..Len(p.couriers) |-> p.couriers[i].id])}

\* _mutate lines 990-1130: every individual that a mutation of rs can give
mutations(p, rs) ==
    LET points(r) == 1..Len(rs[r].points)
        metrics(mutated) == [i \in 1..Len(mutated) |-> update_route_metrics(p, mutated[i])]
        between == {swap_orders_between(rs, q[1], q[2], q[3], q[4]) :
                       q \in {q \in Indices \X Indices \X Indices \X Indices :
                                 /\ q[1] <= Len(rs) /\ q[2] <= Len(rs) /\ q[1] # q[2]
                                 /\ q[3] \in points(q[1]) /\ q[4] \in points(q[2])}}
        within == {swap_orders_within(rs, q[1], q[2], q[3]) :
                      q \in {q \in Indices \X Indices \X Indices :
                                /\ q[1] <= Len(rs)
                                /\ q[2] \in points(q[1]) /\ q[3] \in points(q[1])
                                /\ q[2] # q[3]}}
        moved == {move_order(p, rs, q[1], q[2], q[3]) :
                     q \in {q \in Indices \X Indices \X Indices :
                               /\ q[1] <= Len(rs) /\ q[2] <= Len(rs) /\ q[1] # q[2]
                               /\ rs[q[1]].depot_id = rs[q[2]].depot_id
                               /\ q[3] \in points(q[1])}}
        reversed == {reverse_segment(rs, q[1], q[2], q[3]) :
                        q \in {q \in Indices \X Indices \X Indices :
                                  /\ q[1] <= Len(rs)
                                  /\ Len(rs[q[1]].points) >= 3
                                  /\ q[2] <= Len(rs[q[1]].points) - 2
                                  /\ q[3] > q[2] /\ q[3] <= Len(rs[q[1]].points)}}
    IN {rs} \cup {metrics(mutated) : mutated \in between \cup within \cup moved \cup reversed}

InLoop == ga.pc = "loop"

loop_ignores_timeout == ga.generation < MaxGenerations

\* lines 1161-1165: another generation starts if the cap is not reached and
\* the timeout has not passed
loop_continues == ga.generation < MaxGenerations /\ ~ga.elapsed

\* lines 1144-1146: _initialize_data found no order to route
initialize_data_failed ==
    /\ engine.algorithm = "none"
    /\ ga.pc = "none"
    /\ order_indices(problem) = <<>>
    /\ ga' = [NoGa EXCEPT !.pc = "returned"]
    /\ engine' = [algorithm |-> "genetic", solution |-> "none", routes |-> <<>>]
    /\ UNCHANGED <<dbVars, session, auxVars, problem>>

\* _create_initial_population lines 381-389, one individual at a time, and
\* lines 1153-1158 after the last one
append_individual ==
    /\ engine.algorithm = "none"
    /\ ga.pc \in {"none", "population"}
    /\ order_indices(problem) # <<>>
    /\ \E shuffled, set_order \in Shuffles(order_indices(problem)) :
          \E courier_order \in Shuffles([i \in 1..Len(problem.couriers) |-> problem.couriers[i].id]) :
             LET rs == create_random_solution(problem, shuffled, set_order, courier_order)
             IN ga' = IF ga.pc = "none"
                      THEN [pc |-> "population", population |-> <<rs>>]
                      ELSE LET population == Append(ga.population, rs)
                               best_individual == min_fitness(problem, population)
                           IN [pc |-> "loop", population |-> population, child |-> <<>>,
                               best_individual |-> best_individual, generation |-> 0,
                               elapsed |-> FALSE,
                               least_fitness |-> calculate_fitness(problem, best_individual)]
    /\ UNCHANGED <<dbVars, session, auxVars, problem, engine>>

\* the wall clock passes start_time + timeout (line 1163 reads it)
timeout_elapses ==
    /\ ga.pc \in {"loop", "mutate", "drawn"}
    /\ ~ga.elapsed
    /\ ga' = [ga EXCEPT !.elapsed = TRUE]
    /\ UNCHANGED <<dbVars, session, auxVars, problem, engine>>

\* lines 1161-1187: a generation starts; selection and crossover give the child
start_generation ==
    /\ InLoop
    /\ loop_continues
    /\ \E parent1, parent2 \in tournament_winners(problem, ga.population) :
          \E child1 \in first_children(problem, parent1, parent2) :
             ga' = [ga EXCEPT !.pc = "mutate", !.child = child1]
    /\ UNCHANGED <<dbVars, session, auxVars, problem, engine>>

\* _mutate lines 1009-1011, 1034-1038 and 1066-1068: the second index is drawn
\* until it differs from the first; a draw of the same index leaves the state
\* as it is
draw_indices ==
    /\ ga.pc = "mutate"
    /\ \E differs \in BOOLEAN :
          ga' = [ga EXCEPT !.pc = IF differs THEN "drawn" ELSE "mutate"]
    /\ UNCHANGED <<dbVars, session, auxVars, problem, engine>>

\* lines 1173-1176 and 1189-1206: the elite and the mutated child are the new
\* population
end_generation ==
    /\ ga.pc = "drawn"
    /\ \E child1 \in mutations(problem, ga.child) :
          LET population == <<min_fitness(problem, ga.population), child1>>
              best_individual == update_best(problem, ga.best_individual, population)
              fitnesses == {calculate_fitness(problem, population[i]) : i \in 1..2}
          IN ga' = [ga EXCEPT !.pc = "loop", !.population = population, !.child = <<>>,
                              !.best_individual = best_individual,
                              !.generation = @ + 1,
                              !.least_fitness = SetMin({@} \cup fitnesses)]
    /\ UNCHANGED <<dbVars, session, auxVars, problem, engine>>

\* lines 1161-1165 and 1212: the generations are used up or the timeout was
\* reached at the head of the loop
return_best ==
    /\ InLoop
    /\ ~loop_continues
    /\ ga' = [ga EXCEPT !.pc = "returned"]
    /\ engine' = [algorithm |-> "genetic", solution |-> "none", routes |-> ga.best_individual]
    /\ UNCHANGED <<dbVars, session, auxVars, problem>>

NextGeneration ==
    \/ initialize_data_failed
    \/ append_individual
    \/ timeout_elapses
    \/ start_generation
    \/ draw_indices
    \/ end_generation
    \/ return_best

SpecGeneration == InitGeneration /\ [][NextGeneration]_vars

\* Every step of the run is taken at some time, and a repeated random draw
\* does not give the same index for ever; the timeout need not ever pass.
\* The weak fairness of append_individual, start_generation and
\* end_generation is written with their enabling conditions: each of them
\* leaves the position at which it is enabled.
SpecGenerationFair ==
    /\ SpecGeneration
    /\ WF_vars(initialize_data_failed)
    /\ WF_vars(draw_indices)
    /\ WF_vars(return_best)
    /\ []<>(~(ga.pc \in {"none", "population"} /\ order_indices(problem) # <<>>))
    /\ []<>(~(InLoop /\ loop_continues))
    /\ []<>(ga.pc # "drawn")

\* C21: the route list that a run of the genetic algorithm returns has a
\* fitness that is at most the fitness of every individual of every
\* population of the run, the first population and the one after each
\* generation.
C21_ReturnsBestEver ==
    (engine.algorithm = "genetic" /\ engine.routes # <<>>) =>
        /\ engine.routes = ga.best_individual
        /\ calculate_fitness(problem, engine.routes) <= ga.least_fitness

C21_Witness ==
    /\ engine.algorithm = "genetic"
    /\ ga.pc = "returned"
    /\ ga.generation = MaxGenerations
    /\ engine.routes # <<>>
    /\ \E i \in 1..2 : calculate_fitness(problem, ga.population[i])
                          > calculate_fitness(problem, engine.routes)
    /\ engine.routes # ga.population[1]

(***************************************************************************)
(* The mutation operators (specification SpecEngine)                        *)
(***************************************************************************)
\* the sequence numbers of the points are 0..k-1 in order
sequenced(points) == \A j \in 1..Len(points) : points[j].sequence = j - 1

\* a step of the run in which a route of the individual lost or gained a point
PointMoved ==
    /\ Evolving
    /\ ga'.pc = "evolving"
    /\ \E i \in 1..Len(ga.individual) :
          Len(ga'.individual[i].points) # Len(ga.individual[i].points)

\* C22: when the move-order mutation moves a point, the source and the target
\* route are of the same depot, the item load of the target route plus the
\* items of the moved order is at most the item capacity of the target's
\* courier, and afterwards the sequence numbers of both routes are 0..k-1.
C22_MoveOrderWithinDepotAndCapacity ==
    [][PointMoved =>
          \E source, target \in 1..Len(ga.individual) :
             LET before == ga.individual
                 after == ga'.individual
                 moved == after[target].points[Len(after[target].points)]
             IN /\ source # target
                /\ before[source].depot_id = before[target].depot_id
                /\ Len(after[source].points) = Len(before[source].points) - 1
                /\ Len(after[target].points) = Len(before[target].points) + 1
                /\ \E point \in 1..Len(before[source].points) :
                      /\ before[source].points[point].order_id = moved.order_id
                      /\ [j \in 1..Len(after[source].points) |-> after[source].points[j].order_id]
                            = [j \in 1..Len(after[source].points) |->
                                  RemoveAt(before[source].points, point)[j].order_id]
                /\ points_load(problem, before[target].points)
                      + get(order_data(problem, moved.order_id), "items_count", 1)
                      <= get(courier_data(problem, before[target].courier_id),
                             "max_capacity", DefaultMaxCapacity)
                /\ sequenced(after[source].points)
                /\ sequenced(after[target].points)
                /\ \A i \in 1..Len(before) :
                      i \notin {source, target} => after[i].points = before[i].points]_vars

\* after the first generation the individual has other route lengths than the
\* first individual, which is still the best one
C22_Witness ==
    /\ ga.pc = "evolving"
    /\ ga.generation = 1
    /\ Len(ga.individual) = Len(ga.best_individual)
    /\ \E i \in 1..Len(ga.individual) :
          /\ Len(ga.individual[i].points) = Len(ga.best_individual[i].points) + 1
          /\ Len(ga.individual[i].points) >= 2

\* C29: a mutation step (swap of two orders, move of an order, reversal of a
\* segment) leaves, for every order id, the number of points over all routes of
\* the individual that carry it unchanged: no order is lost or duplicated.
C29_MutationKeepsOrders ==
    [][(Evolving /\ ga'.pc = "evolving") =>
          LET occurrences(rs, o) ==
                  {<<i, j>> \in (1..Len(rs)) \X (1..MaxPoints) :
                      j <= Len(rs[i].points) /\ rs[i].points[j].order_id = o}
          IN \A o \in SeqRange(ProblemOrderIds) :
                Cardinality(occurrences(ga'.individual, o))
                    = Cardinality(occurrences(ga.individual, o))]_vars

\* after the first generation the routes of the individual have the lengths of
\* the first individual, which is still the best one, and another order at
\* some point
C29_Witness ==
    /\ ga.pc = "evolving"
    /\ ga.generation = 1
    /\ Len(ga.individual) = Len(ga.best_individual)
    /\ \A i \in 1..Len(ga.individual) :
          Len(ga.individual[i].points) = Len(ga.best_individual[i].points)
    /\ \E i \in 1..Len(ga.individual) :
          \E j \in 1..Len(ga.individual[i].points) :
             ga.individual[i].points[j].order_id # ga.best_individual[i].points[j].order_id

\* C30: every individual of a run of the genetic algorithm (the individuals
\* of the population, the child of crossover before and after its mutation,
\* the best individual) and the route list the run returns hold at most one
\* route per courier id.
C30_OneRoutePerCourier ==
    LET one_route_per_courier(rs) ==
            \A i, j \in 1..Len(rs) : rs[i].courier_id = rs[j].courier_id => i = j
    IN /\ ga.pc \in {"population", "loop", "mutate", "drawn"} =>
             \A i \in 1..Len(ga.population) : one_route_per_courier(ga.population[i])
       /\ ga.pc \in {"loop", "mutate", "drawn"} =>
             /\ one_route_per_courier(ga.child)
             /\ one_route_per_courier(ga.best_individual)
       /\ engine.algorithm = "genetic" => one_route_per_courier(engine.routes)

(***************************************************************************)
(* The order of the points of a route (specification SpecTraversal): the    *)
(* nearest-neighbour engine on one depot at the origin with orders on both  *)
(* sides of it.                                                             *)
(***************************************************************************)
TraversalLocations == {-4, -1, 3, 5}

TraversalProblems ==
    {[depots |-> <<depot_model_dump("d1")>>,
      orders |-> <<ScenarioOrder("o1", x1), ScenarioOrder("o2", x2), ScenarioOrder("o3", x3)>>,
      couriers |-> couriers_of(<<depot_model_dump("d1")>>)] :
        x1 \in TraversalLocations, x2 \in TraversalLocations, x3 \in TraversalLocations}

InitTraversal ==
    /\ depots = Depots
    /\ InitDb
    /\ problem \in TraversalProblems
    /\ engine = NoEngine
    /\ ga = NoGa
    /\ InitAux

NextTraversal == nearest_neighbor

SpecTraversal == InitTraversal /\ [][NextTraversal]_vars

\* C23: in every route of the nearest-neighbour engine the points are numbered
\* 0..k-1, each is a different order of the problem, and each point is, of the
\* points from it onwards, one at the least distance from the place before
\* it, which is the depot for the first point and the previous point's order
\* otherwise; the way back to the depot is no point.
C23_NearestNeighborTraversal ==
    engine.algorithm = "nearest_neighbor" =>
        \A i \in 1..Len(engine.routes) :
            LET r == engine.routes[i]
                k == Len(r.points)
                place(j) == IF j = 0 THEN depot_data_of(problem, r.depot_id).location
                            ELSE order_data(problem, r.points[j].order_id).location
            IN /\ sequenced(r.points)
               /\ \A j \in 1..k : \E o \in 1..Len(problem.orders) :
                     problem.orders[o].id = r.points[j].order_id
               /\ \A j, l \in 1..k : r.points[j].order_id = r.points[l].order_id => j = l
               /\ \A j \in 1..k : \A l \in j..k :
                     distance_to(place(j - 1), place(j)) <= distance_to(place(j - 1), place(l))

\* a route of three points that were assigned in another order than they are
\* visited: the second nearest to the depot is visited last
C23_Witness ==
    /\ engine.algorithm = "nearest_neighbor"
    /\ \E i \in 1..Len(engine.routes) :
          LET r == engine.routes[i]
              from_depot(j) == distance_to(depot_data_of(problem, r.depot_id).location,
                                           order_data(problem, r.points[j].order_id).location)
          IN /\ Len(r.points) = 3
             /\ from_depot(3) < from_depot(2)

\* C24: a run of the genetic algorithm comes to its end and returns a list of
\* routes; the number of generations never exceeds the cap, and no generation
\* starts at a head of the loop at which the timeout has passed.
C24_RunTerminates ==
    /\ <>(ga.pc = "returned" /\ engine.algorithm = "genetic"
             /\ \A i \in 1..Len(engine.routes) :
                   DOMAIN engine.routes[i] = DOMAIN NewRoute(NoCourier, NoDepot))
    /\ [](ga.pc \in {"loop", "mutate", "drawn", "returned"} => ga.generation <= MaxGenerations)
    /\ [][(InLoop /\ ga.elapsed) => ga'.pc = "returned"]_vars

\* the timeout ended the run after one generation, before the cap
C24_Witness ==
    /\ ga.pc = "returned"
    /\ engine.algorithm = "genetic"
    /\ engine.routes # <<>>
    /\ ga.elapsed
    /\ ga.generation = 1
    /\ ga.generation < MaxGenerations

(***************************************************************************)
(* A refused POST /routes (specification SpecRoutes)                        *)
(***************************************************************************)
\* C25: when create_route raises (courier or depot not found, courier of
\* another depot, capacity exceeded, an order of a point not found or not
\* PENDING), the stored orders, routes and route points are what they were
\* before the call.
C25_FailedCreateStoresNothing ==
    [][\A rc \in ApiRoutes :
          (/\ post_route(rc)
           /\ ~create_route(orders, routes, route_points, orders, {}, {}, rc).ok)
              => UNCHANGED dbVars]_vars

(***************************************************************************)
(* Two optimization requests at once (specification SpecConcurrent). Each   *)
(* request has its own AsyncSession (core/database.py get_db); session is   *)
(* the pair of them. A request reads the free couriers and the pending      *)
(* orders, its engine answers with routes over what was read, each order in *)
(* at most one route and each courier with at most one route, and the loop  *)
(* over the routes calls create_route. The requests take turns at any       *)
(* await between these steps.                                               *)
(***************************************************************************)
Requests == 1..2

IdleRequest ==
    [pc |-> "idle", view |-> orders, dirty |-> {}, new_points |-> {},
     used_courier_ids |-> {}, routes_response |-> <<>>, n |-> 0,
     couriers |-> {}, pending |-> {}]

InitConcurrent ==
    /\ depots = Depots
    /\ courier_depot_id = [c \in Couriers |-> courier_depot(c)]
    /\ orders = [o \in Orders |-> [status |-> PENDING, courier_id |-> NoCourier]]
    /\ routes = {}
    /\ route_points = {}
    /\ session = [s \in Requests |-> IdleRequest]
    /\ problem = NoProblem
    /\ engine = NoEngine
    /\ ga = NoGa
    /\ InitAux

\* routes/route.py lines 199-214: the request reads the free couriers and the
\* pending orders
request_begin(s) ==
    /\ session[s].pc = "idle"
    /\ LET all_couriers == available_couriers(NoDepot)
           pending == get_pending_orders
           fails == inputs_missing(TRUE, depots, all_couriers, pending)
       IN session' = [session EXCEPT
                        ![s] = IF fails THEN [IdleRequest EXCEPT !.pc = "failed"]
                               ELSE [IdleRequest EXCEPT !.pc = "arbiter",
                                                        !.couriers = all_couriers,
                                                        !.pending = pending]]
    /\ UNCHANGED <<dbVars, engVars, auxVars>>

\* the orders of the routes the request has emitted
emitted_orders(s) ==
    UNION {{session[s].routes_response[i].points[j].order_id :
               j \in 1..Len(session[s].routes_response[i].points)} :
           i \in 1..Len(session[s].routes_response)}

\* lines 255-303: one route of the engine's answer goes to create_route
request_route(s, courier_id, ids) ==
    /\ session[s].pc = "arbiter"
    /\ session[s].n < MaxRoutes
    /\ Cardinality(routes) < MaxStoredRoutes
    /\ courier_id \in session[s].couriers
    /\ ~courier_used(courier_id, session[s].used_courier_ids)
    /\ ids # <<>>
    /\ SeqRange(ids) \subseteq session[s].pending \ emitted_orders(s)
    /\ \A j, k \in 1..Len(ids) : ids[j] = ids[k] => j = k
    /\ LET rc == [courier_id |-> courier_id, depot_id |-> courier_depot_id[courier_id],
                  points |-> EnginePoints(ids), total_distance |-> 1]
           res == create_route(orders, routes, route_points, session[s].view,
                               session[s].dirty, session[s].new_points, rc)
       IN /\ orders' = res.orders
          /\ routes' = res.routes
          /\ route_points' = res.route_points
          /\ session' = [session EXCEPT
                           ![s].view = res.view, ![s].dirty = res.dirty,
                           ![s].new_points = res.new_points,
                           ![s].used_courier_ids =
                               IF res.ok THEN @ \cup {courier_id} ELSE @,
                           ![s].routes_response =
                               IF res.ok THEN Append(@, res.response) ELSE @,
                           ![s].n = @ + 1]
    /\ UNCHANGED <<depots, courier_depot_id, engVars, auxVars>>

\* lines 305-320: the response is returned and get_db closes the session
request_end(s) ==
    /\ session[s].pc = "arbiter"
    /\ session' = [session EXCEPT ![s] = [IdleRequest EXCEPT !.pc = "done"]]
    /\ UNCHANGED <<dbVars, engVars, auxVars>>

NextConcurrent ==
    \E s \in Requests :
        \/ request_begin(s)
        \/ \E courier_id \in Couriers, ids \in IdLists(Orders) :
              request_route(s, courier_id, ids)
        \/ request_end(s)

SpecConcurrent == InitConcurrent /\ [][NextConcurrent]_vars

\* C26: with two optimization requests running at once over the same pending
\* orders and couriers, no order is referenced by points of two stored routes.
C26_NoOrderInTwoRoutes ==
    \A o \in Orders :
        Cardinality({p.route_id : p \in {q \in route_points : q.order_id = o}}) <= 1

(***************************************************************************)
(* Optimization requests one after the other, with courier updates and      *)
(* route deletions between them (specification SpecCouriers).               *)
(***************************************************************************)
NobodyServing == \A s \in Requests : session[s].pc # "arbiter"

sequential_begin(s) ==
    /\ NobodyServing
    /\ request_begin(s)

\* CourierService.update_courier lines 372-391 with a depot_id: the orders of a
\* courier that changes its depot go back to PENDING, and the courier row
\* gets the depot
update_courier(courier_id, depot_id) ==
    /\ NobodyServing
    /\ courier_id \in StoredCouriers
    /\ depot_id \in depots
    /\ courier_depot_id[courier_id] # depot_id
    /\ orders' = IF courier_depot_id[courier_id] # depot_id
                 THEN [o \in Orders |->
                          IF orders[o].courier_id = courier_id
                          THEN [status |-> PENDING, courier_id |-> NoCourier]
                          ELSE orders[o]]
                 ELSE orders
    /\ courier_depot_id' = [courier_depot_id EXCEPT ![courier_id] = depot_id]
    /\ UNCHANGED <<depots, routes, route_points, session, engVars, auxVars>>

\* RouteService.delete_route between two requests
delete_stored_route(route_id) ==
    /\ NobodyServing
    /\ \E r \in routes : r.id = route_id
    /\ LET pts == {p \in route_points : p.route_id = route_id}
           released == {p.order_id : p \in pts}
       IN /\ orders' = release_assigned(orders, released)
          /\ route_points' = route_points \ pts
          /\ routes' = {r \in routes : r.id # route_id}
    /\ UNCHANGED <<depots, courier_depot_id, session, engVars, auxVars>>

NextCouriers ==
    \/ \E s \in Requests :
          \/ sequential_begin(s)
          \/ \E courier_id \in Couriers, ids \in IdLists(Orders) :
                request_route(s, courier_id, ids)
          \/ request_end(s)
    \/ \E courier_id \in Couriers, depot_id \in Depots : update_courier(courier_id, depot_id)
    \/ \E id \in 1..MaxStoredRoutes : delete_stored_route(id)

SpecCouriers == InitConcurrent /\ [][NextCouriers]_vars

\* C27: after any sequence of optimization requests, courier updates and
\* route deletions no courier has more than one stored route, and a request
\* is offered no courier that has a stored route.
C27_OneStoredRoutePerCourier ==
    /\ [](\A c \in Couriers : Cardinality({r \in routes : r.courier_id = c}) <= 1)
    /\ [][\A s \in Requests :
             (session[s].pc = "idle" /\ session'[s].pc # "idle") =>
                 \A c \in session'[s].couriers : \A r \in routes : r.courier_id # c]_vars

====
